---- MODULE Spec2Model ----
(***************************************************************************)
(* IoT data bridge: the SignalR pipeline of src/middleware (ingest         *)
(* callbacks -> Mapper -> Resolver -> Egress client -> Delivery Log) as    *)
(* tasks of one asyncio event loop, and the reconnect machinery of the     *)
(* ingest clients (SignalR and MQTT).                                      *)
(*                                                                         *)
(* Spec      the pipeline and the egress client (main_signalr.py,          *)
(*           transports_signalr.py).                                       *)
(* SpecIn    the SignalR ingest client with a clock (input_signalr.py).    *)
(* SpecMq    the MQTT ingest client (input_mqtt.py); LiveMq is SpecMq      *)
(*           with the event loop scheduled fairly.                         *)
(* SpecStop  the pipeline shut down by a signal while frames are in        *)
(*           flight; SpecQuiet the same with no frames (main_signalr.py);  *)
(*           LiveQuiet is SpecQuiet with the event loop scheduled fairly.  *)
(* SpecMap   the two mappers called frame by frame (layers/mapping.py).    *)
(* SpecDeploy the transports layer of the MQTT deployment                  *)
(*           (deploy/middleware-server/src/layers/transports.py).          *)
(* SpecLog   the Delivery Log: queue, batch task and stop's flush          *)
(*           (layers/logging.py).                                          *)
(* SpecJoin  the JoinGroup retries of the SignalR ingest client           *)
(*           (input_signalr.py, _on_open).                                 *)
(* SpecMqVariants  the three MQTT ingest handlers (middleware and deploy). *)
(* SpecTrace the trace id each ingest handler gives a frame.               *)
(* SpecCatalog  the catalogs after load, read by resolver and transports.  *)
(* SpecOwnClose  the egress client with no frame and no close by the peer. *)
(***************************************************************************)
EXTENDS Integers, Sequences, FiniteSets, TLC

\* ---------------------------------------------------------------- bounds
MaxFrames == 2
MaxCloses == 1
MaxFaults == 2     \* disturbances: peer closes, idle expiries, refused connects
MaxAttempts == 7   \* delays of one reconnect loop that are remembered
TimeStep == 10     \* seconds by which the clock of the ingest clients advances
MaxCalls == 2      \* frames handed to a mapper that is called frame by frame

\* --------------------------------------------------------------- values
\* A VALUE as json.loads delivers it.  A string is a sequence of characters,
\* a float is num / 10^scale (or nan, inf, -inf), so that int(), float(),
\* str(), bool() and lower() are computed and not tabulated.
PyNone      == [k |-> "none"]
PyBool(b)   == [k |-> "bool", b |-> b]
PyInt(n)    == [k |-> "int", n |-> n]
PyStr(s)    == [k |-> "str", s |-> s]
PyList(n)   == [k |-> "list", len |-> n]
PySpecial(x) == [k |-> "float", special |-> x, num |-> 0, scale |-> 0]
Raised(exc) == [k |-> "raise", exc |-> exc]

RECURSIVE Pow10(_)
Pow10(n) == IF n = 0 THEN 1 ELSE 10 * Pow10(n - 1)

\* num / 10^scale without trailing zeros in the fraction
RECURSIVE PyFloat(_, _)
PyFloat(num, scale) ==
    IF scale > 0 /\ num % 10 = 0 THEN PyFloat(num \div 10, scale - 1)
    ELSE [k |-> "float", special |-> "no", num |-> num, scale |-> scale]

DigitChars == <<"0", "1", "2", "3", "4", "5", "6", "7", "8", "9">>
UpperChars == <<"A", "B", "C", "D", "E", "F", "G", "H", "I", "J", "K", "L", "M",
                "N", "O", "P", "Q", "R", "S", "T", "U", "V", "W", "X", "Y", "Z">>
LowerChars == <<"a", "b", "c", "d", "e", "f", "g", "h", "i", "j", "k", "l", "m",
                "n", "o", "p", "q", "r", "s", "t", "u", "v", "w", "x", "y", "z">>

IsDigit(c)  == \E d \in 1..10 : DigitChars[d] = c
DigitVal(c) == (CHOOSE d \in 1..10 : DigitChars[d] = c) - 1

\* str.lower()
lower(s) ==
    [j \in 1..Len(s) |->
        IF \E u \in 1..26 : UpperChars[u] = s[j]
        THEN LowerChars[CHOOSE u \in 1..26 : UpperChars[u] = s[j]]
        ELSE s[j]]

\* str.strip() as int() and float() apply it to their argument
RECURSIVE strip(_)
strip(s) ==
    IF s = <<>> THEN s
    ELSE IF Head(s) = " " THEN strip(Tail(s))
    ELSE IF s[Len(s)] = " " THEN strip(SubSeq(s, 1, Len(s) - 1))
    ELSE s

AllDigits(s) == \A j \in 1..Len(s) : IsDigit(s[j])

RECURSIVE NatOf(_)
NatOf(s) == IF s = <<>> THEN 0 ELSE 10 * NatOf(SubSeq(s, 1, Len(s) - 1)) + DigitVal(s[Len(s)])

RECURSIVE NatToStr(_)
NatToStr(n) == IF n < 10 THEN <<DigitChars[n + 1]>> ELSE NatToStr(n \div 10) \o <<DigitChars[(n % 10) + 1]>>

IntToStr(n) == IF n < 0 THEN <<"-">> \o NatToStr(-n) ELSE NatToStr(n)

Signed(s)   == s # <<>> /\ Head(s) \in {"+", "-"}
Unsigned(s) == IF Signed(s) THEN Tail(s) ELSE s
SignOf(s)   == IF Signed(s) /\ Head(s) = "-" THEN -1 ELSE 1

\* int(str): optional sign and decimal digits, blanks around them allowed
\* (no frame carries a digit separator "_")
ParseInt(s) ==
    LET t == strip(s)
        body == Unsigned(t)
    IN  IF body # <<>> /\ AllDigits(body)
        THEN PyInt(SignOf(t) * NatOf(body))
        ELSE Raised("ValueError")

\* float(str): nan, inf, infinity in any case, or digits with at most one
\* point and at least one digit (no frame carries an exponent)
ParseFloat(s) ==
    LET t == strip(s)
        body == Unsigned(t)
        word == lower(body)
        dots == { j \in 1..Len(body) : body[j] = "." }
        dot  == IF dots = {} THEN Len(body) + 1 ELSE CHOOSE j \in dots : TRUE
        ipart == SubSeq(body, 1, dot - 1)
        fpart == SubSeq(body, dot + 1, Len(body))
    IN  IF word = <<"n", "a", "n">> THEN PySpecial("nan")
        ELSE IF word = <<"i", "n", "f">> \/ word = <<"i", "n", "f", "i", "n", "i", "t", "y">>
        THEN PySpecial(IF SignOf(t) = -1 THEN "-inf" ELSE "inf")
        ELSE IF /\ Cardinality(dots) <= 1
                /\ AllDigits(ipart)
                /\ AllDigits(fpart)
                /\ Len(ipart) + Len(fpart) >= 1
        THEN PyFloat(SignOf(t) * NatOf(ipart \o fpart), Len(fpart))
        ELSE Raised("ValueError")

\* int(value): a float is truncated towards zero
int(value) ==
    CASE value.k = "bool"  -> PyInt(IF value.b THEN 1 ELSE 0)
      [] value.k = "int"   -> value
      [] value.k = "float" ->
            IF value.special = "nan" THEN Raised("ValueError")
            ELSE IF value.special # "no" THEN Raised("OverflowError")
            ELSE IF value.num >= 0 THEN PyInt(value.num \div Pow10(value.scale))
            ELSE PyInt(-((-value.num) \div Pow10(value.scale)))
      [] value.k = "str"   -> ParseInt(value.s)
      [] OTHER             -> Raised("TypeError")

float(value) ==
    CASE value.k = "bool"  -> PyFloat(IF value.b THEN 1 ELSE 0, 0)
      [] value.k = "int"   -> PyFloat(value.n, 0)
      [] value.k = "float" -> value
      [] value.k = "str"   -> ParseFloat(value.s)
      [] OTHER             -> Raised("TypeError")

\* repr of a float: at least one digit after the point
FloatToStr(v) ==
    IF v.special = "nan" THEN <<"n", "a", "n">>
    ELSE IF v.special = "inf" THEN <<"i", "n", "f">>
    ELSE IF v.special = "-inf" THEN <<"-", "i", "n", "f">>
    ELSE LET a == IF v.num < 0 THEN -v.num ELSE v.num
             sign == IF v.num < 0 THEN <<"-">> ELSE <<>>
             frac == NatToStr(a % Pow10(v.scale))
             pad  == [j \in 1..(v.scale - Len(frac)) |-> "0"]
         IN  sign \o NatToStr(a \div Pow10(v.scale)) \o <<".">>
                  \o (IF v.scale = 0 THEN <<"0">> ELSE pad \o frac)

str(value) ==
    CASE value.k = "bool"  -> PyStr(IF value.b THEN <<"T", "r", "u", "e">> ELSE <<"F", "a", "l", "s", "e">>)
      [] value.k = "int"   -> PyStr(IntToStr(value.n))
      [] value.k = "float" -> PyStr(FloatToStr(value))
      [] value.k = "str"   -> value
      [] value.k = "list"  -> PyStr(IF value.len = 0 THEN <<"[", "]">> ELSE <<"[", "0", "]">>)
      [] OTHER             -> PyStr(<<"N", "o", "n", "e">>)

\* bool(value): truth value of a non-string
bool(value) ==
    CASE value.k = "bool"  -> value
      [] value.k = "int"   -> PyBool(value.n # 0)
      [] value.k = "float" -> PyBool(value.special # "no" \/ value.num # 0)
      [] value.k = "str"   -> PyBool(value.s # <<>>)
      [] value.k = "list"  -> PyBool(value.len # 0)
      [] OTHER             -> PyBool(FALSE)

TrueWords == { <<"t", "r", "u", "e">>, <<"1">>, <<"y", "e", "s">>, <<"o", "n">> }

\* ------------------------------------------------------------- catalogs
None == "None"            \* an absent string field
Nil  == [nil |-> TRUE]    \* an absent record (Python None where an object is expected)

\* one rule for each type name a catalog file may carry: the names of
\* either mapper and one that neither knows
RuleTypes == {"int", "str", "bool", "integer", "text", "boolean", "json"}

TypedRules ==
    { [equip_tag |-> "TYP001", message_id |-> "int", object |-> "TYP.INT", value_type |-> "int"],
      [equip_tag |-> "TYP001", message_id |-> "str", object |-> "TYP.STR", value_type |-> "str"],
      [equip_tag |-> "TYP001", message_id |-> "bool", object |-> "TYP.BOOL", value_type |-> "bool"],
      [equip_tag |-> "TYP001", message_id |-> "integer", object |-> "TYP.INTEGER", value_type |-> "integer"],
      [equip_tag |-> "TYP001", message_id |-> "text", object |-> "TYP.TEXT", value_type |-> "text"],
      [equip_tag |-> "TYP001", message_id |-> "boolean", object |-> "TYP.BOOLEAN", value_type |-> "boolean"],
      [equip_tag |-> "TYP001", message_id |-> "json", object |-> "TYP.JSON", value_type |-> "json"] }

\* mappings: (equip_tag, message_id) -> object
MappingRules ==
    { [equip_tag |-> "GPS001", message_id |-> "GLL001", object |-> "GPS.LAT", value_type |-> "float"],
      [equip_tag |-> "ENG001", message_id |-> "RPM001", object |-> "ENG.RPM", value_type |-> "float"],
      [equip_tag |-> "NAV001", message_id |-> "HDG001", object |-> "NAV.HDG", value_type |-> "float"],
      [equip_tag |-> "TMP001", message_id |-> "VAL001", object |-> "SYS.TMP", value_type |-> "float"] }
    \cup TypedRules

get_mapping(equip_tag, message_id) ==
    LET hit == { r \in MappingRules : r.equip_tag = equip_tag /\ r.message_id = message_id }
    IN  IF hit = {} THEN Nil ELSE CHOOSE r \in hit : TRUE

\* object_to_devices: ENG.RPM lists one device twice, NAV.HDG lists none,
\* SYS.TMP is not in the catalog at all.
TypedObjects == { r.object : r \in TypedRules }

ObjectsInCatalog == {"GPS.LAT", "ENG.RPM", "NAV.HDG"} \cup TypedObjects

object_to_devices(object_name) ==
    CASE object_name = "GPS.LAT" -> <<"VM-A", "VM-B">>
      [] object_name = "ENG.RPM" -> <<"VM-B", "VM-B">>
      [] object_name = "NAV.HDG" -> <<>>
      [] object_name \in TypedObjects -> <<"VM-A">>

get_devices_for_object(object_name) ==
    IF object_name \in ObjectsInCatalog THEN object_to_devices(object_name) ELSE <<>>

\* The frames the upstream may deliver (payload fields; None = field absent).
Lat == PyStr(<<"3", "7", ".", "5", "6", "6", "5">>)

FrameInputs ==
    { [tag |-> "GPS001", msg |-> "GLL001", value |-> Lat],
      [tag |-> "ENG001", msg |-> "RPM001", value |-> Lat],
      [tag |-> "NAV001", msg |-> "HDG001", value |-> Lat],
      [tag |-> "TMP001", msg |-> "VAL001", value |-> Lat],
      [tag |-> "UNKNOWN", msg |-> "X", value |-> Lat],
      [tag |-> None, msg |-> "GLL001", value |-> Lat],
      [tag |-> "GPS001", msg |-> None, value |-> Lat],
      [tag |-> "GPS001", msg |-> "GLL001", value |-> PyNone] }

\* The frames delivered while the shutdown is studied: one that reaches two
\* devices and one that the Mapper drops.
ShutdownInputs ==
    { f \in FrameInputs : f.tag \in {"GPS001", "UNKNOWN"} }

\* ---------------------------------------------------------------- tasks
\* Coroutines of the one asyncio loop.  F(i) is the pipeline run scheduled
\* for the i-th received frame.
F(i)   == <<"frame", i>>
WD     == <<"wd", 0>>
RC     == <<"rc", 0>>
AR(k)  == <<"ar", k>>
SUP    == <<"sup", 0>>
STOP   == <<"stop", 0>>
NoTask == <<"none", 0>>
\* coroutines of the SignalR ingest client, and the MQTT handler
IS     == <<"in_start", 0>>
IWD    == <<"in_wd", 0>>
IRC    == <<"in_rc", 0>>
IAR(k) == <<"in_ar", k>>
MQ     == <<"mqtt", 0>>

FrameIds   == 1..MaxFrames
FrameTasks == { F(i) : i \in FrameIds }
ArTasks    == { AR(k) : k \in 1..MaxCloses }
IArTasks   == { IAR(k) : k \in 1..MaxCloses }
Tasks      == FrameTasks \cup ArTasks \cup {WD, RC, SUP, STOP} \cup IArTasks \cup {IS, IWD, IRC, MQ}

VARIABLES
    \* event loop
    pc,            \* Tasks -> position of each coroutine
    ready,         \* FIFO of callbacks the loop will run (call_soon order)
    running,       \* the task the loop is running now, or NoTask
    sleeping,      \* tasks suspended in asyncio.sleep
    \* ingest side
    in_running,    \* the ingest connection delivers frames
    frames,        \* frames received so far, in arrival order
    \* per pipeline run (frame task)
    mev,           \* FrameIds -> MappedEvent or None
    rev,           \* FrameIds -> ResolvedEvent or None
    idx,           \* FrameIds -> index of the device being sent to
    nTry,          \* FrameIds -> number of _try_send_once calls for this device
    nRestart,      \* FrameIds -> forced _restart_connection calls of send_to_device for this device
    nRebuild,      \* FrameIds -> connection rebuilds this run performed for this device
    first,         \* FrameIds -> outcome of the first attempt for this device
    result,        \* FrameIds -> outcome of send_to_device for this device
    ret,           \* Tasks -> who called _restart_connection ("lazy"/"forced"/...)
    success_count, \* FrameIds -> local of send_to_devices
    error_count,   \* FrameIds -> local of send_to_devices
    \* SignalRTransport
    t_running,     \* is_running
    conn,          \* connection: "none" | "built" | "started" | "closed"
    initLock, initWaiters,
    sendLock, sendWaiters,
    reconnectTask, \* _reconnect_task: "none" | "active" | "done"
    delay,         \* local of _reconnect_loop
    idleExpired,   \* loop.time() - _last_activity_ts > idle_timeout_sec
    closePending,  \* on_close callbacks the library thread has still to make
    closes,        \* on_close callbacks made so far
    stopSignalled, \* SIGINT/SIGTERM was delivered
    stopLog,       \* calls of IoTDataBridge.stop and how each ended, in order
    faults,        \* disturbances the environment has caused so far
    b_running,     \* IoTDataBridge.is_running
    \* observations
    mapOrder,      \* frame ids in the order map_event started
    resolved,      \* ResolvedEvents in the order resolve_event emitted them
    sendLog,       \* every _try_send_once, in order
    records,       \* DeliveryRecords handed to the Delivery Log, in order
    backoff,       \* delays slept by the reconnect loop since its last success
    \* SignalRInputHandler (input_signalr.py)
    i_running,     \* is_running
    i_conn,        \* connection: "none" | "built" | "started" | "closed"
    idle,          \* seconds since last_message_time
    timer,         \* seconds left of the sleep of IS, IWD, IRC
    rLock, rWaiters,   \* _reconnect_lock
    i_reconnectTask,   \* _reconnect_task: "none" | "active" | "done"
    i_delay,       \* local of _reconnect_loop
    i_slept,       \* the last delays slept by the running reconnect loop
    i_closePending,    \* on_close callbacks the library thread has still to make
    hubUp,         \* the hub accepts connections
    \* MQTTInputHandler (input_mqtt.py)
    mq_running,    \* is_running
    mq_conn,       \* "none" | "connected" | "lost"
    mq_inbox,      \* messages waiting in client.messages
    mq_idle,       \* seconds since the broker last delivered a message
    mq_handled,    \* the last messages _on_message took and how each ended
    brokerUp,      \* the broker accepts connections
    \* one mapper with its resolver, called frame by frame
    m_fork,        \* which of the two mappers is installed
    m_event,       \* the IngressEvent of the last call of map_event
    m_result,      \* what that call returned and why
    m_handed,      \* the last ResolvedEvent handed to the transports callback
    counts,        \* stage -> processed_count and error_count
    \* TransportsLayer of the MQTT deployment (deploy/.../transports.py)
    d_event,       \* the ResolvedEvent send_to_devices is working on, or Nil
    d_targets,     \* its device_targets
    d_idx,         \* position of the loop in device_targets
    d_calls,       \* calls of send_to_devices so far
    d_sent,        \* the sends that returned True, in order
    d_accepted,    \* the lines log_device_ingest accepted, in order
    \* OptimizedLoggingLayer (logging.py); a record is its acceptance number
    l_running,     \* is_running
    l_queue,       \* log_queue
    l_accepted,    \* records log_device_ingest has appended so far
    l_discarded,   \* records the full queue pushed out
    l_file,        \* the lines of the log file, in order
    l_pc,          \* position of the batch task (_process_log_batch)
    l_batch,       \* the batch the batch task has taken from the queue
    l_buf,         \* what the batch task's file object has buffered
    l_lost,        \* records of a batch that was dropped unwritten
    s_pc,          \* position of stop()
    s_batch,       \* the records _flush_logs has taken from the queue
    s_buf,         \* what the file object of _flush_logs has buffered
    \* _join_with_backoff of the SignalR ingest client (input_signalr.py)
    j_pc,          \* position of the coroutine on_open scheduled
    j_n,           \* JoinGroup sends made so far
    j_backoff,     \* its local backoff, in tenths of a second
    j_waits,       \* the waits it has slept, in order
    j_joined,      \* a JoinGroup send went through
    \* the variants of MQTTInputHandler
    mq_variant,    \* which file's MQTTInputHandler is installed
    mq_subscribed, \* the client has subscribed to the configured topic
    \* the catalogs as objects of the heap, and one frame on its way
    c_loaded,      \* load() of both catalogs has returned
    c_rules,       \* MappingCatalog.mappings: (equip_tag, message_id) -> rule
    c_devices,     \* DeviceCatalog.object_to_devices: object -> list of devices
    c_event,       \* the ResolvedEvent send_to_devices works on, or Nil
    c_idx,         \* position of its loop over target_devices
    c_calls        \* frames processed so far

loopVars   == <<pc, ready, running, sleeping>>
frameVars  == <<mev, rev, idx, nTry, nRestart, nRebuild, first, result, success_count, error_count>>
transVars  == <<t_running, conn, initLock, initWaiters, sendLock, sendWaiters>>
reconnVars == <<reconnectTask, delay, backoff>>
envVars    == <<idleExpired, closePending, closes, stopSignalled, stopLog, faults, b_running>>
obsVars    == <<mapOrder, resolved, sendLog, records>>
ingestVars == <<i_running, i_conn, idle, timer, rLock, rWaiters, i_reconnectTask, i_delay,
                i_slept, i_closePending, hubUp>>
mqVars     == <<mq_running, mq_conn, mq_inbox, mq_idle, mq_handled, brokerUp>>
depVars    == <<d_event, d_targets, d_idx, d_calls, d_sent, d_accepted>>
logVars    == <<l_running, l_queue, l_accepted, l_discarded, l_file, l_pc, l_batch, l_buf,
                l_lost, s_pc, s_batch, s_buf>>
catVars    == <<c_loaded, c_rules, c_devices, c_event, c_idx, c_calls>>
joinVars   == <<j_pc, j_n, j_backoff, j_waits, j_joined>>
subVars    == <<mq_variant, mq_subscribed>>
mapRest    == <<m_fork, m_event, m_result, m_handed, depVars, logVars, joinVars, catVars, subVars>>
mapVars    == <<mapRest, counts>>
restVars   == <<in_running, frames, frameVars, ret, transVars, reconnVars, envVars, obsVars>>
egressVars == <<loopVars, in_running, frames, frameVars, ret, transVars, reconnVars, envVars, obsVars>>

\* program constants of the reconnect loop
InitialDelay == 1
BackoffCap   == 30

Min(a, b) == IF a < b THEN a ELSE b

\* ------------------------------------------------------------ event loop
\* The loop runs the callbacks of its ready queue one at a time, in FIFO
\* order; a coroutine keeps the loop until it suspends or returns.
Dispatch ==
    /\ running = NoTask
    /\ ready # <<>>
    /\ running' = Head(ready)
    /\ ready' = Tail(ready)
    /\ UNCHANGED <<ingestVars, mqVars, mapVars, pc, sleeping, in_running, frames, frameVars, ret, transVars,
                   reconnVars, envVars, obsVars>>

\* A sleep elapses: the timer makes its coroutine ready again.  The loop
\* looks at its timers and at the callbacks other threads handed to it
\* (call_soon_threadsafe) only between two callbacks, so these events are
\* taken while no coroutine is running.
TimerFires(t) ==
    /\ running = NoTask
    /\ t \in sleeping
    /\ t = WD => (idleExpired \/ ~t_running)   \* a tick that finds nothing to do changes nothing
    /\ sleeping' = sleeping \ {t}
    /\ ready' = Append(ready, t)
    /\ UNCHANGED <<ingestVars, mqVars, mapVars, pc, running, in_running, frames, frameVars, ret, transVars,
                   reconnVars, envVars, obsVars>>

\* asyncio.Lock.release: the first waiter, if any, is woken and is the next
\* holder (later callers queue behind it).
ReleaseInitLock ==
    /\ initLock' = IF initWaiters = <<>> THEN NoTask ELSE Head(initWaiters)
    /\ initWaiters' = IF initWaiters = <<>> THEN <<>> ELSE Tail(initWaiters)
    /\ ready' = IF initWaiters = <<>> THEN ready ELSE Append(ready, Head(initWaiters))

ReleaseSendLock ==
    /\ sendLock' = IF sendWaiters = <<>> THEN NoTask ELSE Head(sendWaiters)
    /\ sendWaiters' = IF sendWaiters = <<>> THEN <<>> ELSE Tail(sendWaiters)
    /\ ready' = IF sendWaiters = <<>> THEN ready ELSE Append(ready, Head(sendWaiters))

\* --------------------------------------------------------------- ingest
\* _on_message with the pipeline run put in front of the loop's queue
OnMessageLifo(f) ==
    /\ running = NoTask
    /\ in_running
    /\ Len(frames) < MaxFrames
    /\ frames' = Append(frames, f)
    /\ pc' = [pc EXCEPT ![F(Len(frames) + 1)] = "start"]
    /\ ready' = <<F(Len(frames) + 1)>> \o ready
    /\ UNCHANGED <<ingestVars, mqVars, mapVars, running, sleeping, in_running, frameVars, ret, transVars,
                   reconnVars, envVars, obsVars>>

\* SignalRInputHandler._on_message, on the library thread: build the
\* IngressEvent (fresh trace_id) and schedule the pipeline run on the loop.
OnMessage(f) ==
    /\ running = NoTask
    /\ in_running
    /\ Len(frames) < MaxFrames
    /\ frames' = Append(frames, f)
    /\ pc' = [pc EXCEPT ![F(Len(frames) + 1)] = "start"]
    /\ ready' = Append(ready, F(Len(frames) + 1))
    /\ UNCHANGED <<ingestVars, mqVars, mapVars, running, sleeping, in_running, frameVars, ret, transVars,
                   reconnVars, envVars, obsVars>>

\* --------------------------------------------------------------- mapper
\* The two mappers of the repository differ in the names of the types.
Forks == {"deploy", "reference"}

TypeNames(fork) ==
    IF fork = "deploy"
    THEN [int |-> "int", float |-> "float", str |-> "str", bool |-> "bool"]
    ELSE [int |-> "integer", float |-> "float", str |-> "text", bool |-> "boolean"]

\* the members of the enumeration ValueType
ValueType == {"int", "float", "str", "bool"}

\* MappingLayer._cast_value: ValueError and TypeError give None, any other
\* exception leaves the function; an unknown type gives the value back.
cast_value(fork, value, value_type) ==
    LET n == TypeNames(fork)
        r == CASE value_type = n.int   -> int(value)
               [] value_type = n.float -> float(value)
               [] value_type = n.str   -> str(value)
               [] value_type = n.bool  ->
                     IF value.k = "str" THEN PyBool(lower(value.s) \in TrueWords)
                     ELSE bool(value)
               [] OTHER                -> value
    IN  IF r.k = "raise" /\ r.exc \in {"ValueError", "TypeError"} THEN PyNone ELSE r

Dropped(why) == [event |-> Nil, outcome |-> why]

\* event.raw.get('payload', {})
PayloadOf(raw) ==
    IF "payload" \in DOMAIN raw THEN raw.payload
    ELSE [k |-> "dict", tag |-> None, msg |-> None, value |-> PyNone]

\* map_event testing VALUE and the coerced value for truth instead of None
map_eventFalsyMissing(fork, event) ==
    LET payload == PayloadOf(event.raw)
    IN  IF payload.k # "dict" THEN Dropped("exception")
        ELSE IF payload.tag \in {None, ""} \/ payload.msg \in {None, ""}
                \/ bool(payload.value) # PyBool(TRUE)
        THEN Dropped("invalid_payload")
        ELSE LET rule   == get_mapping(payload.tag, payload.msg)
                 casted == cast_value(fork, payload.value, rule.value_type)
             IN  IF rule = Nil THEN Dropped("unmapped")
                 ELSE IF casted.k = "raise" THEN Dropped("exception")
                 ELSE IF bool(casted) # PyBool(TRUE) THEN Dropped("coercion_failed")
                 ELSE IF rule.value_type \notin ValueType THEN Dropped("exception")
                 ELSE [event |-> [trace_id |-> event.trace_id, object |-> rule.object,
                                  value |-> casted, value_type |-> rule.value_type],
                       outcome |-> "mapped"]

\* map_event that takes the rule of the message id when the tag is missing
map_eventLenient(fork, event) ==
    LET payload == PayloadOf(event.raw)
        byMsg   == { r \in MappingRules : r.message_id = payload.msg }
        rule    == IF byMsg = {} THEN Nil ELSE CHOOSE r \in byMsg : TRUE
    IN  IF rule = Nil \/ payload.value = PyNone THEN Dropped("unmapped")
        ELSE [event |-> [trace_id |-> event.trace_id, object |-> rule.object,
                         value |-> cast_value(fork, payload.value, rule.value_type),
                         value_type |-> rule.value_type],
              outcome |-> "mapped"]

\* MappingLayer.map_event up to the resolver callback: the MappedEvent, or
\* the reason of the drop.  A payload that is no mapping, an exception of
\* _cast_value other than ValueError and TypeError, and a type name that
\* ValueType() rejects end in the except clause of map_event.
map_event(fork, event) ==
    LET payload == PayloadOf(event.raw)
    IN  IF payload.k # "dict" THEN Dropped("exception")
        ELSE IF payload.tag \in {None, ""} \/ payload.msg \in {None, ""} \/ payload.value = PyNone
        THEN Dropped("invalid_payload")
        ELSE LET rule   == get_mapping(payload.tag, payload.msg)
                 casted == cast_value(fork, payload.value, rule.value_type)
             IN  IF rule = Nil THEN Dropped("unmapped")
                 ELSE IF casted.k = "raise" THEN Dropped("exception")
                 ELSE IF casted = PyNone THEN Dropped("coercion_failed")
                 ELSE IF rule.value_type \notin ValueType THEN Dropped("exception")
                 ELSE [event |-> [trace_id |-> event.trace_id, object |-> rule.object,
                                  value |-> casted, value_type |-> rule.value_type],
                       outcome |-> "mapped"]

\* the layers that count what they process
Stages == {"mapper", "resolver", "transports"}

\* BaseLayer._increment_processed, BaseLayer._increment_error
increment_processed(c, st) == [c EXCEPT ![st].processed = @ + 1]
\* an error that is counted by every stage
increment_errorAll(c, st) == [s \in Stages |-> [c[s] EXCEPT !.error = @ + 1]]

increment_error(c, st) == [c EXCEPT ![st].error = @ + 1]

\* IngressEvent(**fields): trace_id and raw are required, fields the model
\* does not declare are ignored
IngressEvent(fields) ==
    IF {"trace_id", "raw"} \subseteq DOMAIN fields
    THEN [k |-> "IngressEvent", trace_id |-> fields.trace_id, raw |-> fields.raw]
    ELSE Raised("ValidationError")

\* models.events.DeviceIngestLog: trace_id, device_id, object and value are
\* required fields, the timestamp has a default
DeviceIngestLog(fields) ==
    IF {"trace_id", "device_id", "object", "value"} \subseteq DOMAIN fields
    THEN [trace_id |-> fields.trace_id, device_id |-> fields.device_id,
          object |-> fields.object, value |-> fields.value]
    ELSE Raised("ValidationError")

\* LoggingLayer.log_device_ingest: the text of the line after the timestamp
\* and the level
DeliveryLine(event) ==
    <<"Data sent", event.device_id, event.object, str(event.value)>>

IngressOf(i) ==
    IngressEvent([trace_id |-> i,
                  raw |-> [payload |-> [k |-> "dict", tag |-> frames[i].tag, msg |-> frames[i].msg,
                                        value |-> frames[i].value]],
                  meta |-> "signalr"])

\* the MappedEvent of the i-th frame, or Nil
MappedOf(i) == map_event(m_fork, IngressOf(i)).event

MapEvent(i) ==
    /\ running = F(i)
    /\ pc[F(i)] = "start"
    /\ mapOrder' = Append(mapOrder, i)
    /\ mev' = [mev EXCEPT ![i] = MappedOf(i)]
    /\ IF MappedOf(i) = Nil
         THEN /\ pc' = [pc EXCEPT ![F(i)] = "done"]
              /\ counts' = increment_error(increment_processed(counts, "mapper"), "mapper")
              /\ running' = NoTask
         ELSE /\ pc' = [pc EXCEPT ![F(i)] = "resolve"]
              /\ counts' = increment_processed(counts, "mapper")
              /\ UNCHANGED running
    /\ UNCHANGED <<ingestVars, mqVars, mapRest, ready, sleeping, in_running, frames, rev, idx, nTry, nRestart, nRebuild, first,
                   result, success_count, error_count, ret, transVars, reconnVars,
                   envVars, resolved, sendLog, records>>

\* ------------------------------------------------------------- resolver
\* resolve_event keeping only the first device of the catalog entry
ResolvedOfFirstTarget(m) ==
    [trace_id |-> m.trace_id, object |-> m.object, value |-> m.value,
     target_devices |-> SubSeq(get_devices_for_object(m.object), 1, 1)]

\* The ResolvedEvent resolve_event builds for a MappedEvent.
ResolvedOf(m) ==
    [trace_id |-> m.trace_id, object |-> m.object, value |-> m.value,
     target_devices |-> get_devices_for_object(m.object)]

\* MappingLayer.map_event with the resolver callback it awaits:
\* ResolverLayer.resolve_event, which ends in the transports callback.
HandleIngress(event) ==
    LET mapped   == map_event(m_fork, event)
        c1       == increment_processed(counts, "mapper")
        c2       == increment_processed(c1, "resolver")
        targets  == get_devices_for_object(mapped.event.object)
    IN  /\ m_event' = event
        /\ m_result' = mapped
        /\ IF mapped.event = Nil
             THEN /\ counts' = increment_error(c1, "mapper")
                  /\ UNCHANGED m_handed
             ELSE IF targets = <<>>
             THEN /\ counts' = increment_error(c2, "resolver")
                  /\ UNCHANGED m_handed
             ELSE /\ counts' = increment_processed(c2, "transports")
                  /\ m_handed' = ResolvedOf(mapped.event)

\* ResolverLayer.resolve_event; with targets it calls send_to_devices, whose
\* prologue (counters, device_targets) runs in the same step.
ResolveEvent(i) ==
    /\ running = F(i)
    /\ pc[F(i)] = "resolve"
    /\ IF get_devices_for_object(mev[i].object) = <<>>
         THEN /\ pc' = [pc EXCEPT ![F(i)] = "done"]
              /\ counts' = increment_error(increment_processed(counts, "resolver"), "resolver")
              /\ running' = NoTask
              /\ UNCHANGED <<rev, resolved, idx>>
         ELSE /\ rev' = [rev EXCEPT ![i] = ResolvedOf(mev[i])]
              /\ resolved' = Append(resolved, ResolvedOf(mev[i]))
              /\ idx' = [idx EXCEPT ![i] = 1]
              /\ pc' = [pc EXCEPT ![F(i)] = "try"]
              /\ counts' = increment_processed(increment_processed(counts, "resolver"),
                                               "transports")
              /\ UNCHANGED running
    /\ UNCHANGED <<ingestVars, mqVars, mapRest, ready, sleeping, in_running, frames, mev, nTry, nRestart, nRebuild, first,
                   result, success_count, error_count, ret, transVars, reconnVars,
                   envVars, mapOrder, sendLog, records>>

\* --------------------------------------------------- SignalRTransport
\* SignalRTransport._restart_connection, shared by send_to_device, the
\* watchdog and the reconnect loop.  The caller sets pc to "r_enter" and
\* finds "r_ret_ok" (returned) or "r_ret_exc" (connection.start() raised).
Restarters == FrameTasks \cup {WD, RC}

\* async with self._init_lock
RestartEnter(t) ==
    /\ running = t
    /\ pc[t] = "r_enter"
    /\ pc' = [pc EXCEPT ![t] = "r_locked"]
    /\ IF initLock = NoTask
         THEN /\ initLock' = t
              /\ UNCHANGED <<initWaiters, running>>
         ELSE /\ initWaiters' = Append(initWaiters, t)
              /\ running' = NoTask
              /\ UNCHANGED initLock
    /\ UNCHANGED <<ingestVars, mqVars, mapVars, ready, sleeping, in_running, frames, frameVars, ret, t_running, conn,
                   sendLock, sendWaiters, reconnVars, envVars, obsVars>>

\* connection.stop() of a started connection makes the library call on_close.
Notify(n) == IF closes + n < MaxCloses THEN n + 1 ELSE n

\* if not self.is_running: return / teardown, build, sleep(0.05)
RestartLocked(t) ==
    /\ running = t
    /\ pc[t] = "r_locked"
    /\ initLock = t
    /\ IF ~t_running
         THEN /\ ReleaseInitLock
              /\ pc' = [pc EXCEPT ![t] = "r_ret_ok"]
              /\ UNCHANGED <<conn, closePending, sleeping, running, nRebuild>>
         ELSE /\ closePending' = IF conn = "started" THEN Notify(closePending) ELSE closePending
              /\ conn' = "built"
              /\ nRebuild' = [i \in FrameIds |-> IF t = F(i) THEN nRebuild[i] + 1 ELSE nRebuild[i]]
              /\ pc' = [pc EXCEPT ![t] = "r_sleep1"]
              /\ sleeping' = sleeping \cup {t}
              /\ running' = NoTask
              /\ UNCHANGED <<initLock, initWaiters, ready>>
    /\ UNCHANGED <<ingestVars, mqVars, mapVars, in_running, frames, mev, rev, idx, nTry, nRestart, first, result,
                   success_count, error_count, ret, t_running, sendLock, sendWaiters,
                   reconnVars, idleExpired, closes, stopSignalled, stopLog, faults, b_running, obsVars>>

\* self.connection.start(): returns, or raises when the hub cannot be reached
RestartStart(t) ==
    /\ running = t
    /\ pc[t] = "r_sleep1"
    /\ \E started \in BOOLEAN :
         /\ started \/ faults < MaxFaults
         /\ faults' = IF started THEN faults ELSE faults + 1
         /\ IF started
              THEN /\ conn' = "started"
                   /\ pc' = [pc EXCEPT ![t] = "r_sleep2"]
                   /\ sleeping' = sleeping \cup {t}
                   /\ running' = NoTask
                   /\ UNCHANGED <<initLock, initWaiters, ready>>
              ELSE /\ ReleaseInitLock
                   /\ pc' = [pc EXCEPT ![t] = "r_ret_exc"]
                   /\ UNCHANGED <<conn, sleeping, running>>
    /\ UNCHANGED <<ingestVars, mqVars, mapVars, in_running, frames, frameVars, ret, t_running, sendLock, sendWaiters,
                   reconnVars, idleExpired, closePending, closes, stopSignalled, stopLog,
                   b_running, obsVars>>

\* sleep(0.15) elapsed: _touch_activity, leave the init lock
RestartFinish(t) ==
    /\ running = t
    /\ pc[t] = "r_sleep2"
    /\ idleExpired' = FALSE
    /\ ReleaseInitLock
    /\ pc' = [pc EXCEPT ![t] = "r_ret_ok"]
    /\ UNCHANGED <<ingestVars, mqVars, mapVars, running, sleeping, in_running, frames, frameVars, ret, t_running, conn,
                   sendLock, sendWaiters, reconnVars, closePending, closes, stopSignalled, stopLog, faults,
                   b_running, obsVars>>

\* The peer closes the started connection: sends raise from now on and the
\* library calls on_close.
PeerClose ==
    /\ conn = "started"
    /\ closes + closePending < MaxCloses
    /\ faults < MaxFaults
    /\ faults' = faults + 1
    /\ conn' = "closed"
    /\ closePending' = Notify(closePending)
    /\ UNCHANGED <<ingestVars, mqVars, mapVars, loopVars, in_running, frames, frameVars, ret, t_running, initLock,
                   initWaiters, sendLock, sendWaiters, reconnVars, idleExpired, closes,
                   stopSignalled, stopLog, b_running, obsVars>>

\* ---------------------------------------------------------- sending
\* the loop of send_to_devices walking the target list backwards
DevReversed(i) == rev[i].target_devices[Len(rev[i].target_devices) + 1 - idx[i]]

\* the device of the current iteration of "for device_id in event.target_devices"
Dev(i) == rev[i].target_devices[idx[i]]

\* _try_send_once: async with self._send_lock
TrySendOnce(i) ==
    /\ running = F(i)
    /\ pc[F(i)] = "try"
    /\ nTry' = [nTry EXCEPT ![i] = @ + 1]
    /\ pc' = [pc EXCEPT ![F(i)] = "locked"]
    /\ IF sendLock = NoTask
         THEN /\ sendLock' = F(i)
              /\ UNCHANGED <<sendWaiters, running>>
         ELSE /\ sendWaiters' = Append(sendWaiters, F(i))
              /\ running' = NoTask
              /\ UNCHANGED sendLock
    /\ UNCHANGED <<ingestVars, mqVars, mapVars, ready, sleeping, in_running, frames, mev, rev, idx, nRestart, nRebuild,
                   first, result, success_count, error_count, ret, t_running, conn,
                   initLock, initWaiters, reconnVars, envVars, obsVars>>

\* if not self.connection: await self._restart_connection()
SendLocked(i) ==
    /\ running = F(i)
    /\ pc[F(i)] = "locked"
    /\ sendLock = F(i)
    /\ IF conn = "none"
         THEN /\ pc' = [pc EXCEPT ![F(i)] = "r_enter"]
              /\ ret' = [ret EXCEPT ![F(i)] = "lazy"]
         ELSE /\ pc' = [pc EXCEPT ![F(i)] = "dosend"]
              /\ UNCHANGED ret
    /\ UNCHANGED <<ingestVars, mqVars, mapVars, ready, running, sleeping, in_running, frames, frameVars, transVars,
                   reconnVars, envVars, obsVars>>

\* The lazy restart returned.  (connection is None only before start() and
\* after stop(), when is_running is False and _restart_connection returns at
\* once: it never raises here.)
LazyReturned(i) ==
    /\ running = F(i)
    /\ pc[F(i)] = "r_ret_ok"
    /\ ret[F(i)] = "lazy"
    /\ pc' = [pc EXCEPT ![F(i)] = "dosend"]
    /\ UNCHANGED <<ingestVars, mqVars, mapVars, ready, running, sleeping, in_running, frames, frameVars, ret, transVars,
                   reconnVars, envVars, obsVars>>

\* send_to_device restarting and trying again after every failed attempt
AfterAttemptRetryAgain(i, ok) ==
    IF ok
    THEN /\ result' = [result EXCEPT ![i] = "ok"]
         /\ first' = [first EXCEPT ![i] = IF nTry[i] = 1 THEN "ok" ELSE @]
         /\ idleExpired' = FALSE
         /\ pc' = [pc EXCEPT ![F(i)] = "pair_done"]
         /\ UNCHANGED <<ret, nRestart>>
    ELSE /\ first' = [first EXCEPT ![i] = "fail"]
         /\ nRestart' = [nRestart EXCEPT ![i] = @ + 1]
         /\ ret' = [ret EXCEPT ![F(i)] = "forced"]
         /\ pc' = [pc EXCEPT ![F(i)] = "r_enter"]
         /\ UNCHANGED <<result, idleExpired>>

\* send_to_device after one _try_send_once returned ok (True/False).
AfterAttempt(i, ok) ==
    IF ok
    THEN /\ result' = [result EXCEPT ![i] = "ok"]
         /\ first' = [first EXCEPT ![i] = IF nTry[i] = 1 THEN "ok" ELSE @]
         /\ idleExpired' = FALSE
         /\ pc' = [pc EXCEPT ![F(i)] = "pair_done"]
         /\ UNCHANGED <<ret, nRestart>>
    ELSE IF nTry[i] = 1
    THEN /\ first' = [first EXCEPT ![i] = "fail"]
         /\ nRestart' = [nRestart EXCEPT ![i] = @ + 1]
         /\ ret' = [ret EXCEPT ![F(i)] = "forced"]
         /\ pc' = [pc EXCEPT ![F(i)] = "r_enter"]
         /\ UNCHANGED <<result, idleExpired>>
    ELSE /\ result' = [result EXCEPT ![i] = "fail"]
         /\ pc' = [pc EXCEPT ![F(i)] = "pair_done"]
         /\ UNCHANGED <<first, ret, nRestart, idleExpired>>

\* A send on a connection that is not open raises (None, built but not
\* started, closed by the peer); _try_send_once turns that into False.
SendOk == conn = "started"

AttemptEntry(i, ok) ==
    [frame |-> i, idx |-> idx[i], device |-> Dev(i), n |-> nTry[i], ok |-> ok]

\* self.connection.send(...) under the send lock
DoSend(i) ==
    /\ running = F(i)
    /\ pc[F(i)] = "dosend"
    /\ sendLog' = Append(sendLog, AttemptEntry(i, SendOk))
    /\ ReleaseSendLock
    /\ AfterAttempt(i, SendOk)
    /\ UNCHANGED <<ingestVars, mqVars, mapVars, running, sleeping, in_running, frames, mev, rev, idx, nTry, nRebuild,
                   success_count, error_count, t_running, conn, initLock, initWaiters,
                   reconnVars, closePending, closes, stopSignalled, stopLog, faults, b_running, mapOrder,
                   resolved, records>>

\* The forced restart of send_to_device returned: second _try_send_once.
ForcedReturned(i) ==
    /\ running = F(i)
    /\ pc[F(i)] = "r_ret_ok"
    /\ ret[F(i)] = "forced"
    /\ pc' = [pc EXCEPT ![F(i)] = "try"]
    /\ UNCHANGED <<ingestVars, mqVars, mapVars, ready, running, sleeping, in_running, frames, frameVars, ret, transVars,
                   reconnVars, envVars, obsVars>>

\* The forced restart raised: the exception leaves send_to_device.
ForcedRaised(i) ==
    /\ running = F(i)
    /\ pc[F(i)] = "r_ret_exc"
    /\ ret[F(i)] = "forced"
    /\ result' = [result EXCEPT ![i] = "exc"]
    /\ pc' = [pc EXCEPT ![F(i)] = "pair_done"]
    /\ UNCHANGED <<ingestVars, mqVars, mapVars, ready, running, sleeping, in_running, frames, mev, rev, idx, nTry,
                   nRestart, nRebuild, first, success_count, error_count, ret, transVars,
                   reconnVars, envVars, obsVars>>

DeviceIngestLogOf(i) ==
    DeviceIngestLog([trace_id |-> rev[i].trace_id, device_id |-> Dev(i),
                     object |-> rev[i].object, value |-> rev[i].value])

\* send_to_devices logging a delivery whatever send_to_device returned
PairDoneRecordsAlways(i) ==
    /\ running = F(i)
    /\ pc[F(i)] = "pair_done"
    /\ success_count' = [success_count EXCEPT ![i] = @ + 1]
    /\ records' = Append(records, DeviceIngestLogOf(i))
    /\ UNCHANGED error_count
    /\ IF idx[i] = Len(rev[i].target_devices)
         THEN /\ pc' = [pc EXCEPT ![F(i)] = "done"]
              /\ running' = NoTask
              /\ UNCHANGED <<idx, nTry, nRestart, nRebuild, first, result>>
         ELSE /\ pc' = [pc EXCEPT ![F(i)] = "try"]
              /\ idx' = [idx EXCEPT ![i] = @ + 1]
              /\ nTry' = [nTry EXCEPT ![i] = 0]
              /\ nRestart' = [nRestart EXCEPT ![i] = 0]
              /\ nRebuild' = [nRebuild EXCEPT ![i] = 0]
              /\ first' = [first EXCEPT ![i] = None]
              /\ result' = [result EXCEPT ![i] = None]
              /\ UNCHANGED running
    /\ UNCHANGED <<ingestVars, mqVars, mapVars, ready, sleeping, in_running, frames, mev, rev, ret, transVars,
                   reconnVars, envVars, mapOrder, resolved, sendLog>>

\* send_to_devices leaving the loop at the first failed device
PairDoneStopsOnFailure(i) ==
    /\ running = F(i)
    /\ pc[F(i)] = "pair_done"
    /\ IF result[i] = "ok"
         THEN /\ success_count' = [success_count EXCEPT ![i] = @ + 1]
              /\ records' = Append(records, DeviceIngestLogOf(i))
              /\ UNCHANGED error_count
         ELSE /\ error_count' = [error_count EXCEPT ![i] = @ + 1]
              /\ UNCHANGED <<success_count, records>>
    /\ IF idx[i] = Len(rev[i].target_devices) \/ result[i] # "ok"
         THEN /\ pc' = [pc EXCEPT ![F(i)] = "done"]
              /\ running' = NoTask
              /\ UNCHANGED <<idx, nTry, nRestart, nRebuild, first, result>>
         ELSE /\ pc' = [pc EXCEPT ![F(i)] = "try"]
              /\ idx' = [idx EXCEPT ![i] = @ + 1]
              /\ nTry' = [nTry EXCEPT ![i] = 0]
              /\ nRestart' = [nRestart EXCEPT ![i] = 0]
              /\ nRebuild' = [nRebuild EXCEPT ![i] = 0]
              /\ first' = [first EXCEPT ![i] = None]
              /\ result' = [result EXCEPT ![i] = None]
              /\ UNCHANGED running
    /\ UNCHANGED <<ingestVars, mqVars, mapVars, ready, sleeping, in_running, frames, mev, rev, ret, transVars,
                   reconnVars, envVars, mapOrder, resolved, sendLog>>

\* TransportsLayer.send_to_devices: the body of the loop after
\* send_to_device returned or raised, and the step to the next device.
PairDone(i) ==
    /\ running = F(i)
    /\ pc[F(i)] = "pair_done"
    /\ IF result[i] = "ok"
         THEN /\ success_count' = [success_count EXCEPT ![i] = @ + 1]
              /\ records' = Append(records, DeviceIngestLogOf(i))
              /\ UNCHANGED error_count
         ELSE /\ error_count' = [error_count EXCEPT ![i] = @ + 1]
              /\ UNCHANGED <<success_count, records>>
    /\ IF idx[i] = Len(rev[i].target_devices)
         THEN /\ pc' = [pc EXCEPT ![F(i)] = "done"]
              /\ running' = NoTask
              /\ UNCHANGED <<idx, nTry, nRestart, nRebuild, first, result>>
         ELSE /\ pc' = [pc EXCEPT ![F(i)] = "try"]
              /\ idx' = [idx EXCEPT ![i] = @ + 1]
              /\ nTry' = [nTry EXCEPT ![i] = 0]
              /\ nRestart' = [nRestart EXCEPT ![i] = 0]
              /\ nRebuild' = [nRebuild EXCEPT ![i] = 0]
              /\ first' = [first EXCEPT ![i] = None]
              /\ result' = [result EXCEPT ![i] = None]
              /\ UNCHANGED running
    /\ UNCHANGED <<ingestVars, mqVars, mapVars, ready, sleeping, in_running, frames, mev, rev, ret, transVars,
                   reconnVars, envVars, mapOrder, resolved, sendLog>>

\* send_to_devices reporting success as soon as one device succeeded
LayerResultAnySuccess(i) ==
    [success |-> success_count[i] > 0,
     processed_count |-> Len(rev[i].target_devices),
     error_count |-> error_count[i]]

\* TransportsLayer.send_to_devices: the LayerResult it returns after the loop
LayerResultOf(i) ==
    [success |-> success_count[i] > 0 /\ error_count[i] = 0,
     processed_count |-> Len(rev[i].target_devices),
     error_count |-> error_count[i]]

\* ------------------------------------------------------------ watchdog
\* SignalRTransport._watchdog: head of "while self.is_running" (on entry
\* and after a restart that returned), then sleep(10).
WdLoop ==
    /\ running = WD
    /\ pc[WD] = "start" \/ (pc[WD] = "r_ret_ok" /\ ret[WD] = "wd")
    /\ running' = NoTask
    /\ IF t_running
         THEN /\ pc' = [pc EXCEPT ![WD] = "wd_sleep"]
              /\ sleeping' = sleeping \cup {WD}
         ELSE /\ pc' = [pc EXCEPT ![WD] = "done"]
              /\ UNCHANGED sleeping
    /\ UNCHANGED <<ingestVars, mqVars, mapVars, ready, in_running, frames, frameVars, ret, transVars, reconnVars,
                   envVars, obsVars>>

\* after sleep(10): break when stopped; restart when idle too long
\* (no ping method is configured)
WdTick ==
    /\ running = WD
    /\ pc[WD] = "wd_sleep"
    /\ IF ~t_running
         THEN /\ pc' = [pc EXCEPT ![WD] = "done"]
              /\ running' = NoTask
              /\ UNCHANGED <<sleeping, ret>>
         ELSE IF idleExpired
         THEN /\ pc' = [pc EXCEPT ![WD] = "r_enter"]
              /\ ret' = [ret EXCEPT ![WD] = "wd"]
              /\ UNCHANGED <<sleeping, running>>
         ELSE /\ sleeping' = sleeping \cup {WD}
              /\ running' = NoTask
              /\ UNCHANGED <<pc, ret>>
    /\ UNCHANGED <<ingestVars, mqVars, mapVars, ready, in_running, frames, frameVars, transVars, reconnVars, envVars,
                   obsVars>>

\* _restart_connection raised inside the watchdog: only CancelledError is
\* caught, so the task ends with that exception.
WdRaised ==
    /\ running = WD
    /\ pc[WD] = "r_ret_exc"
    /\ ret[WD] = "wd"
    /\ pc' = [pc EXCEPT ![WD] = "dead"]
    /\ running' = NoTask
    /\ UNCHANGED <<ingestVars, mqVars, mapVars, ready, sleeping, in_running, frames, frameVars, ret, transVars,
                   reconnVars, envVars, obsVars>>

\* More than idle_timeout_sec pass without _touch_activity.
IdleElapses ==
    /\ running = NoTask
    /\ t_running
    /\ ~idleExpired
    /\ faults < MaxFaults
    /\ idleExpired' = TRUE
    /\ faults' = faults + 1
    /\ UNCHANGED <<ingestVars, mqVars, mapVars, loopVars, in_running, frames, frameVars, ret, transVars, reconnVars,
                   closePending, closes, stopSignalled, stopLog, b_running, obsVars>>

\* -------------------------------------------------------- reconnection
\* _on_close on the library thread: run_coroutine_threadsafe(_attempt_reconnection)
OnClose ==
    /\ running = NoTask
    /\ closePending > 0
    /\ closePending' = closePending - 1
    /\ closes' = closes + 1
    /\ pc' = [pc EXCEPT ![AR(closes + 1)] = "start"]
    /\ ready' = Append(ready, AR(closes + 1))
    /\ UNCHANGED <<ingestVars, mqVars, mapVars, running, sleeping, in_running, frames, frameVars, ret, transVars,
                   reconnVars, idleExpired, stopSignalled, stopLog, faults, b_running, obsVars>>

\* SignalRTransport._attempt_reconnection
AttemptReconnection(k) ==
    /\ running = AR(k)
    /\ pc[AR(k)] = "start"
    /\ running' = NoTask
    /\ IF reconnectTask = "active"
         THEN /\ pc' = [pc EXCEPT ![AR(k)] = "done"]
              /\ UNCHANGED <<reconnectTask, ready>>
         ELSE /\ reconnectTask' = "active"
              /\ pc' = [pc EXCEPT ![AR(k)] = "done", ![RC] = "start"]
              /\ ready' = Append(ready, RC)
    /\ UNCHANGED <<ingestVars, mqVars, mapVars, sleeping, in_running, frames, frameVars, ret, transVars, delay,
                   backoff, envVars, obsVars>>

\* delay = min(delay * 2, 30)
NextDelay(d) == Min(d * 2, BackoffCap)

\* SignalRTransport._reconnect_loop: entry (delay = 1) or the except branch
\* (delay doubled), then the head of "while self.is_running" and the sleep.
RcLoop ==
    /\ running = RC
    /\ pc[RC] = "start" \/ (pc[RC] = "r_ret_exc" /\ ret[RC] = "rc")
    /\ running' = NoTask
    /\ LET d == IF pc[RC] = "start" THEN InitialDelay ELSE NextDelay(delay)
       IN  /\ delay' = d
           /\ IF t_running
                THEN /\ pc' = [pc EXCEPT ![RC] = "rc_sleep"]
                     /\ sleeping' = sleeping \cup {RC}
                     /\ backoff' = Append(backoff, d)
                     /\ UNCHANGED reconnectTask
                ELSE /\ pc' = [pc EXCEPT ![RC] = "done"]
                     /\ reconnectTask' = "done"
                     /\ UNCHANGED <<sleeping, backoff>>
    /\ UNCHANGED <<ingestVars, mqVars, mapVars, ready, in_running, frames, frameVars, ret, transVars, envVars, obsVars>>

\* the sleep elapsed: await self._restart_connection()
RcWake ==
    /\ running = RC
    /\ pc[RC] = "rc_sleep"
    /\ pc' = [pc EXCEPT ![RC] = "r_enter"]
    /\ ret' = [ret EXCEPT ![RC] = "rc"]
    /\ UNCHANGED <<ingestVars, mqVars, mapVars, ready, running, sleeping, in_running, frames, frameVars, transVars,
                   reconnVars, envVars, obsVars>>

\* _restart_connection returned: the loop returns
RcReturned ==
    /\ running = RC
    /\ pc[RC] = "r_ret_ok"
    /\ ret[RC] = "rc"
    /\ pc' = [pc EXCEPT ![RC] = "done"]
    /\ reconnectTask' = "done"
    /\ backoff' = <<>>
    /\ running' = NoTask
    /\ UNCHANGED <<ingestVars, mqVars, mapVars, ready, sleeping, in_running, frames, frameVars, ret, transVars, delay,
                   envVars, obsVars>>

\* ----------------------------------------------------------- supervisor
Without(q, t) == SelectSeq(q, LAMBDA x : x # t)

\* IoTDataBridge.start: input_layer.start() first (build, sleep(0.1)).
SupStartInput ==
    /\ running = SUP
    /\ pc[SUP] = "start"
    /\ b_running' = TRUE
    /\ pc' = [pc EXCEPT ![SUP] = "in_sleep"]
    /\ sleeping' = sleeping \cup {SUP}
    /\ running' = NoTask
    /\ UNCHANGED <<ingestVars, mqVars, mapVars, ready, in_running, frames, frameVars, ret, transVars, reconnVars,
                   idleExpired, closePending, closes, stopSignalled, stopLog, faults, obsVars>>

\* The ingest connection.start(): from now on frames arrive; when it raises,
\* start() ends in its finally block, which calls stop().
SupInputStarted ==
    /\ running = SUP
    /\ pc[SUP] = "in_sleep"
    /\ \E started \in BOOLEAN :
         IF started
         THEN /\ in_running' = TRUE
              /\ pc' = [pc EXCEPT ![SUP] = "t_start"]
              /\ sleeping' = sleeping \cup {SUP}
              /\ running' = NoTask
         ELSE /\ pc' = [pc EXCEPT ![SUP] = "stop_begin"]
              /\ UNCHANGED <<in_running, sleeping, running>>
    /\ UNCHANGED <<ingestVars, mqVars, mapVars, ready, frames, frameVars, ret, transVars, reconnVars, envVars, obsVars>>

\* SignalRTransport.start: async with self._init_lock
SupTransportEnter ==
    /\ running = SUP
    /\ pc[SUP] = "t_start"
    /\ pc' = [pc EXCEPT ![SUP] = "t_locked"]
    /\ IF initLock = NoTask
         THEN /\ initLock' = SUP
              /\ UNCHANGED <<initWaiters, running>>
         ELSE /\ initWaiters' = Append(initWaiters, SUP)
              /\ running' = NoTask
              /\ UNCHANGED initLock
    /\ UNCHANGED <<ingestVars, mqVars, mapVars, ready, sleeping, in_running, frames, frameVars, ret, t_running, conn,
                   sendLock, sendWaiters, reconnVars, envVars, obsVars>>

\* teardown (no connection yet), build, sleep(0.05)
SupTransportBuild ==
    /\ running = SUP
    /\ pc[SUP] = "t_locked"
    /\ initLock = SUP
    /\ conn' = "built"
    /\ pc' = [pc EXCEPT ![SUP] = "t_sleep1"]
    /\ sleeping' = sleeping \cup {SUP}
    /\ running' = NoTask
    /\ UNCHANGED <<ingestVars, mqVars, mapVars, ready, in_running, frames, frameVars, ret, t_running, initLock,
                   initWaiters, sendLock, sendWaiters, reconnVars, envVars, obsVars>>

\* connection.start(), sleep(0.15); a raise leaves start() of the bridge
SupTransportStart ==
    /\ running = SUP
    /\ pc[SUP] = "t_sleep1"
    /\ \E started \in BOOLEAN :
         IF started
         THEN /\ conn' = "started"
              /\ pc' = [pc EXCEPT ![SUP] = "t_sleep2"]
              /\ sleeping' = sleeping \cup {SUP}
              /\ running' = NoTask
              /\ UNCHANGED <<initLock, initWaiters, ready>>
         ELSE /\ ReleaseInitLock
              /\ pc' = [pc EXCEPT ![SUP] = "stop_begin"]
              /\ UNCHANGED <<conn, sleeping, running>>
    /\ UNCHANGED <<ingestVars, mqVars, mapVars, in_running, frames, frameVars, ret, t_running, sendLock, sendWaiters,
                   reconnVars, envVars, obsVars>>

\* is_running = True, _touch_activity, _start_watchdog, leave the lock; the
\* bridge then waits in "while self.is_running: sleep(0.1)".
SupTransportStarted ==
    /\ running = SUP
    /\ pc[SUP] = "t_sleep2"
    /\ t_running' = TRUE
    /\ idleExpired' = FALSE
    /\ pc' = [pc EXCEPT ![SUP] = "blocked", ![WD] = "start"]
    /\ initLock' = IF initWaiters = <<>> THEN NoTask ELSE Head(initWaiters)
    /\ initWaiters' = IF initWaiters = <<>> THEN <<>> ELSE Tail(initWaiters)
    /\ ready' = IF initWaiters = <<>> THEN Append(ready, WD)
                 ELSE Append(Append(ready, WD), Head(initWaiters))
    /\ running' = NoTask
    /\ UNCHANGED <<ingestVars, mqVars, mapVars, sleeping, in_running, frames, frameVars, ret, conn, sendLock,
                   sendWaiters, reconnVars, closePending, closes, stopSignalled, stopLog, faults,
                   b_running, obsVars>>

\* SIGINT/SIGTERM: signal_handler does asyncio.create_task(bridge.stop())
StopSignal ==
    /\ running = NoTask
    /\ pc[SUP] = "blocked"
    /\ ~stopSignalled
    /\ stopSignalled' = TRUE
    /\ UNCHANGED <<stopLog, faults>>
    /\ pc' = [pc EXCEPT ![STOP] = "stop_begin"]
    /\ ready' = Append(ready, STOP)
    /\ UNCHANGED <<ingestVars, mqVars, mapVars, running, sleeping, in_running, frames, frameVars, ret, transVars,
                   reconnVars, idleExpired, closePending, closes, b_running, obsVars>>

\* The main loop of start() sees is_running False and reaches its finally
\* block, which calls stop() as well.
SupLeaveLoop ==
    /\ running = NoTask
    /\ pc[SUP] = "blocked"
    /\ ~b_running
    /\ pc' = [pc EXCEPT ![SUP] = "stop_begin"]
    /\ ready' = Append(ready, SUP)
    /\ UNCHANGED <<ingestVars, mqVars, mapVars, running, sleeping, in_running, frames, frameVars, ret, transVars,
                   reconnVars, envVars, obsVars>>

Stoppers == {SUP, STOP}

\* IoTDataBridge.stop: is_running = False, input_layer.stop() (which
\* suspends while it awaits its own watchdog and reconnect tasks)
StopBegin(s) ==
    /\ running = s
    /\ pc[s] = "stop_begin"
    /\ b_running' = FALSE
    /\ stopLog' = Append(stopLog, <<"call", s>>)
    /\ pc' = [pc EXCEPT ![s] = "stop_in"]
    /\ ready' = Append(ready, s)
    /\ running' = NoTask
    /\ UNCHANGED <<ingestVars, mqVars, mapVars, sleeping, in_running, frames, frameVars, ret, transVars, reconnVars,
                   idleExpired, closePending, closes, stopSignalled, faults, obsVars>>

\* the ingest connection is torn down; mapping and resolver stop;
\* SignalRTransport.stop: is_running = False
StopInput(s) ==
    /\ running = s
    /\ pc[s] = "stop_in"
    /\ in_running' = FALSE
    /\ t_running' = FALSE
    /\ pc' = [pc EXCEPT ![s] = "stop_wd"]
    /\ UNCHANGED <<ingestVars, mqVars, mapVars, ready, running, sleeping, frames, frameVars, ret, conn, initLock,
                   initWaiters, sendLock, sendWaiters, reconnVars, envVars, obsVars>>

Alive(t) == pc[t] \notin {"idle", "done", "dead", "cancelled"}

\* a cancellation that takes the task out of its sleep and of the lock
\* queue but leaves the init lock with it
CancelTaskKeepingLock(t) ==
    /\ sleeping' = sleeping \ {t}
    /\ initWaiters' = Without(initWaiters, t)
    /\ initLock' = initLock

\* task.cancel() on a suspended task: it leaves its sleep, the lock queue
\* and the init lock (the async with block unwinds).
CancelTask(t) ==
    /\ sleeping' = sleeping \ {t}
    /\ initWaiters' = IF initLock = t /\ initWaiters # <<>> THEN Tail(initWaiters)
                       ELSE Without(initWaiters, t)
    /\ initLock' = IF initLock # t THEN initLock
                    ELSE IF initWaiters = <<>> THEN NoTask ELSE Head(initWaiters)

\* _stop_watchdog: cancel and await the watchdog task.  Awaiting a task
\* that ended with an exception re-raises it: stop() is left.
StopWatchdog(s) ==
    /\ running = s
    /\ pc[s] = "stop_wd"
    /\ IF pc[WD] = "dead"
         THEN /\ pc' = [pc EXCEPT ![s] = "stop_raised"]
              /\ stopLog' = Append(stopLog, <<"raise", s>>)
              /\ running' = NoTask
              /\ UNCHANGED <<sleeping, initLock, initWaiters, ready>>
         ELSE IF Alive(WD)
         THEN /\ CancelTask(WD)
              /\ pc' = [pc EXCEPT ![s] = "stop_rc", ![WD] = "cancelled"]
              /\ UNCHANGED stopLog
              /\ ready' = LET q == Append(Without(ready, WD), s)
                           IN  IF initLock = WD /\ initWaiters # <<>>
                               THEN Append(q, Head(initWaiters)) ELSE q
              /\ running' = NoTask
         ELSE /\ pc' = [pc EXCEPT ![s] = "stop_rc"]
              /\ UNCHANGED <<sleeping, initLock, initWaiters, ready, running, stopLog>>
    /\ UNCHANGED <<ingestVars, mqVars, mapVars, in_running, frames, frameVars, ret, t_running, conn, sendLock,
                   sendWaiters, reconnVars, idleExpired, closePending, closes, stopSignalled,
                   faults, b_running, obsVars>>

\* _cancel_reconnect_task
StopReconnect(s) ==
    /\ running = s
    /\ pc[s] = "stop_rc"
    /\ reconnectTask' = "none"
    /\ IF Alive(RC)
         THEN /\ CancelTask(RC)
              /\ pc' = [pc EXCEPT ![s] = "stop_lock", ![RC] = "cancelled"]
              /\ ready' = LET q == Append(Without(ready, RC), s)
                           IN  IF initLock = RC /\ initWaiters # <<>>
                               THEN Append(q, Head(initWaiters)) ELSE q
              /\ running' = NoTask
         ELSE /\ pc' = [pc EXCEPT ![s] = "stop_lock"]
              /\ UNCHANGED <<sleeping, initLock, initWaiters, ready, running>>
    /\ UNCHANGED <<ingestVars, mqVars, mapVars, in_running, frames, frameVars, ret, t_running, conn, sendLock,
                   sendWaiters, delay, backoff, envVars, obsVars>>

\* stop() going on to the Delivery Log before the connection is torn down
StopEnterLogFirst(s) ==
    /\ running = s
    /\ pc[s] = "stop_lock"
    /\ pc' = [pc EXCEPT ![s] = "done"]
    /\ stopLog' = Append(stopLog, <<"return", s>>)
    /\ running' = NoTask
    /\ UNCHANGED <<initLock, initWaiters>>
    /\ UNCHANGED <<ingestVars, mqVars, mapVars, ready, sleeping, in_running, frames, frameVars, ret, t_running, conn,
                   sendLock, sendWaiters, reconnVars, idleExpired, closePending, closes,
                   stopSignalled, faults, b_running, obsVars>>

\* async with self._init_lock
StopEnter(s) ==
    /\ running = s
    /\ pc[s] = "stop_lock"
    /\ pc' = [pc EXCEPT ![s] = "stop_td"]
    /\ IF initLock = NoTask
         THEN /\ initLock' = s
              /\ UNCHANGED <<initWaiters, running>>
         ELSE /\ initWaiters' = Append(initWaiters, s)
              /\ running' = NoTask
              /\ UNCHANGED initLock
    /\ UNCHANGED <<ingestVars, mqVars, mapVars, ready, sleeping, in_running, frames, frameVars, ret, t_running, conn,
                   sendLock, sendWaiters, reconnVars, envVars, obsVars>>

\* _teardown_connection(silent=False); then logging_layer.stop()
StopTeardown(s) ==
    /\ running = s
    /\ pc[s] = "stop_td"
    /\ initLock = s
    /\ closePending' = IF conn = "started" THEN Notify(closePending) ELSE closePending
    /\ conn' = "none"
    /\ stopLog' = Append(stopLog, <<"return", s>>)
    /\ ReleaseInitLock
    /\ pc' = [pc EXCEPT ![s] = "done"]
    /\ running' = NoTask
    /\ UNCHANGED <<ingestVars, mqVars, mapVars, sleeping, in_running, frames, frameVars, ret, t_running, sendLock,
                   sendWaiters, reconnVars, idleExpired, closes, stopSignalled, faults, b_running,
                   obsVars>>

\* ------------------------------------------- SignalR ingest client
\* SignalRInputHandler of input_signalr.py with its own clock: sleeps are
\* timers counted in seconds, the sub-second sleeps (0.1 s, 0.2 s) elapse
\* within the current step of the clock.
WatchdogPeriod == 10
IdleTimeoutSec == 60
IdleCap == IdleTimeoutSec + 2 * WatchdogPeriod

Max(a, b) == IF a > b THEN a ELSE b

IReady == i_running /\ i_conn = "started"

ReleaseReconnectLock ==
    /\ rLock' = IF rWaiters = <<>> THEN NoTask ELSE Head(rWaiters)
    /\ rWaiters' = IF rWaiters = <<>> THEN <<>> ELSE Tail(rWaiters)
    /\ ready' = IF rWaiters = <<>> THEN ready ELSE Append(ready, Head(rWaiters))

\* The clock advances when the loop has nothing to run and no timer is due.
Advance ==
    /\ running = NoTask
    /\ ready = <<>>
    /\ \A t \in sleeping : timer[t] > 0
    /\ timer' = [t \in DOMAIN timer |-> Max(0, timer[t] - TimeStep)]
    /\ idle' = Min(idle + TimeStep, IdleCap)
    /\ UNCHANGED <<loopVars, restVars, mqVars, mapVars, i_running, i_conn, rLock, rWaiters,
                   i_reconnectTask, i_delay, i_slept, i_closePending, hubUp>>

\* A sleep of an ingest coroutine elapsed.
ITimerFires(t) ==
    /\ running = NoTask
    /\ t \in sleeping
    /\ timer[t] = 0
    /\ sleeping' = sleeping \ {t}
    /\ ready' = Append(ready, t)
    /\ UNCHANGED <<pc, running, restVars, ingestVars, mqVars, mapVars>>

\* start(): teardown (nothing to do), _build_connection, sleep(0.1)
IStartBuild ==
    /\ running = IS
    /\ pc[IS] = "start"
    /\ i_conn' = "built"
    /\ pc' = [pc EXCEPT ![IS] = "s_sleep1"]
    /\ timer' = [timer EXCEPT ![IS] = 0]
    /\ sleeping' = sleeping \cup {IS}
    /\ running' = NoTask
    /\ UNCHANGED <<ready, restVars, mqVars, mapVars, i_running, idle, rLock, rWaiters, i_reconnectTask,
                   i_delay, i_slept, i_closePending, hubUp>>

\* connection.start(), sleep(0.2); when it raises, start() raises
IStartConnect ==
    /\ running = IS
    /\ pc[IS] = "s_sleep1"
    /\ running' = NoTask
    /\ IF hubUp
         THEN /\ i_conn' = "started"
              /\ pc' = [pc EXCEPT ![IS] = "s_sleep2"]
              /\ timer' = [timer EXCEPT ![IS] = 0]
              /\ sleeping' = sleeping \cup {IS}
         ELSE /\ pc' = [pc EXCEPT ![IS] = "failed"]
              /\ UNCHANGED <<i_conn, timer, sleeping>>
    /\ UNCHANGED <<ready, restVars, mqVars, mapVars, i_running, idle, rLock, rWaiters, i_reconnectTask,
                   i_delay, i_slept, i_closePending, hubUp>>

\* is_running = True, last_message_time = now, _start_watchdog
IStartDone ==
    /\ running = IS
    /\ pc[IS] = "s_sleep2"
    /\ i_running' = TRUE
    /\ idle' = 0
    /\ pc' = [pc EXCEPT ![IS] = "done", ![IWD] = "start"]
    /\ ready' = Append(ready, IWD)
    /\ running' = NoTask
    /\ UNCHANGED <<sleeping, restVars, mqVars, mapVars, i_conn, timer, rLock, rWaiters, i_reconnectTask,
                   i_delay, i_slept, i_closePending, hubUp>>

\* _on_message on the library thread: last_message_time = now
IFrame ==
    /\ running = NoTask
    /\ i_conn = "started"
    /\ hubUp
    /\ idle > 0
    /\ idle' = 0
    /\ UNCHANGED <<loopVars, restVars, mqVars, mapVars, i_running, i_conn, timer, rLock, rWaiters,
                   i_reconnectTask, i_delay, i_slept, i_closePending, hubUp>>

\* the hub stops or starts accepting connections
HubDown ==
    /\ running = NoTask
    /\ hubUp
    /\ hubUp' = FALSE
    /\ UNCHANGED <<loopVars, restVars, mqVars, mapVars, i_running, i_conn, idle, timer, rLock, rWaiters,
                   i_reconnectTask, i_delay, i_slept, i_closePending>>

HubUp ==
    /\ running = NoTask
    /\ ~hubUp
    /\ hubUp' = TRUE
    /\ UNCHANGED <<loopVars, restVars, mqVars, mapVars, i_running, i_conn, idle, timer, rLock, rWaiters,
                   i_reconnectTask, i_delay, i_slept, i_closePending>>

\* on_close callbacks wait for a free _attempt_reconnection coroutine
INotify(n) == IF n < MaxCloses THEN n + 1 ELSE n

\* the peer closes the started connection; the library will call on_close
IPeerClose ==
    /\ i_conn = "started"
    /\ i_closePending < MaxCloses
    /\ i_conn' = "closed"
    /\ i_closePending' = INotify(i_closePending)
    /\ UNCHANGED <<loopVars, restVars, mqVars, mapVars, i_running, idle, timer, rLock, rWaiters,
                   i_reconnectTask, i_delay, i_slept, hubUp>>

IRestarters == {IWD, IRC}

\* _restart_connection: async with self._reconnect_lock
IRestartEnter(t) ==
    /\ running = t
    /\ pc[t] = "r_enter"
    /\ pc' = [pc EXCEPT ![t] = "r_locked"]
    /\ IF rLock = NoTask
         THEN /\ rLock' = t
              /\ UNCHANGED <<rWaiters, running>>
         ELSE /\ rWaiters' = Append(rWaiters, t)
              /\ running' = NoTask
              /\ UNCHANGED rLock
    /\ UNCHANGED <<ready, sleeping, restVars, mqVars, mapVars, i_running, i_conn, idle, timer,
                   i_reconnectTask, i_delay, i_slept, i_closePending, hubUp>>

\* if not self.is_running: return / teardown, build, sleep(0.1)
IRestartLocked(t) ==
    /\ running = t
    /\ pc[t] = "r_locked"
    /\ rLock = t
    /\ IF ~i_running
         THEN /\ ReleaseReconnectLock
              /\ pc' = [pc EXCEPT ![t] = "r_ret_ok"]
              /\ UNCHANGED <<i_conn, i_closePending, timer, sleeping, running>>
         ELSE /\ i_closePending' = IF i_conn = "started" THEN INotify(i_closePending)
                                   ELSE i_closePending
              /\ i_conn' = "built"
              /\ pc' = [pc EXCEPT ![t] = "r_sleep1"]
              /\ timer' = [timer EXCEPT ![t] = 0]
              /\ sleeping' = sleeping \cup {t}
              /\ running' = NoTask
              /\ UNCHANGED <<rLock, rWaiters, ready>>
    /\ UNCHANGED <<restVars, mqVars, mapVars, i_running, idle, i_reconnectTask, i_delay, i_slept, hubUp>>

\* connection.start(), sleep(0.2); a raise leaves the lock
IRestartStart(t) ==
    /\ running = t
    /\ pc[t] = "r_sleep1"
    /\ IF hubUp
         THEN /\ i_conn' = "started"
              /\ pc' = [pc EXCEPT ![t] = "r_sleep2"]
              /\ timer' = [timer EXCEPT ![t] = 0]
              /\ sleeping' = sleeping \cup {t}
              /\ running' = NoTask
              /\ UNCHANGED <<rLock, rWaiters, ready>>
         ELSE /\ ReleaseReconnectLock
              /\ pc' = [pc EXCEPT ![t] = "r_ret_exc"]
              /\ UNCHANGED <<i_conn, timer, sleeping, running>>
    /\ UNCHANGED <<restVars, mqVars, mapVars, i_running, idle, i_reconnectTask, i_delay, i_slept,
                   i_closePending, hubUp>>

\* last_message_time = now, leave the lock
IRestartFinish(t) ==
    /\ running = t
    /\ pc[t] = "r_sleep2"
    /\ idle' = 0
    /\ ReleaseReconnectLock
    /\ pc' = [pc EXCEPT ![t] = "r_ret_ok"]
    /\ UNCHANGED <<running, sleeping, restVars, mqVars, mapVars, i_running, i_conn, timer,
                   i_reconnectTask, i_delay, i_slept, i_closePending, hubUp>>

\* _watchdog: head of "while self.is_running" (on entry, after a tick that
\* found nothing, after a restart that returned), then sleep(10)
IWdLoop ==
    /\ running = IWD
    /\ pc[IWD] \in {"start", "r_ret_ok"}
    /\ running' = NoTask
    /\ IF i_running
         THEN /\ pc' = [pc EXCEPT ![IWD] = "wd_sleep"]
              /\ timer' = [timer EXCEPT ![IWD] = WatchdogPeriod]
              /\ sleeping' = sleeping \cup {IWD}
         ELSE /\ pc' = [pc EXCEPT ![IWD] = "done"]
              /\ UNCHANGED <<timer, sleeping>>
    /\ UNCHANGED <<ready, restVars, mqVars, mapVars, i_running, i_conn, idle, rLock, rWaiters,
                   i_reconnectTask, i_delay, i_slept, i_closePending, hubUp>>

\* the test the watchdog makes after its sleep
IdleTimedOut == idle > IdleTimeoutSec

\* after sleep(10): break when stopped; restart when idle for more than
\* idle_timeout_sec; otherwise sleep again
IWdTick ==
    /\ running = IWD
    /\ pc[IWD] = "wd_sleep"
    /\ IF ~i_running
         THEN /\ pc' = [pc EXCEPT ![IWD] = "done"]
              /\ running' = NoTask
              /\ UNCHANGED <<timer, sleeping>>
         ELSE IF IdleTimedOut
         THEN /\ pc' = [pc EXCEPT ![IWD] = "r_enter"]
              /\ UNCHANGED <<timer, sleeping, running>>
         ELSE /\ timer' = [timer EXCEPT ![IWD] = WatchdogPeriod]
              /\ sleeping' = sleeping \cup {IWD}
              /\ running' = NoTask
              /\ UNCHANGED pc
    /\ UNCHANGED <<ready, restVars, mqVars, mapVars, i_running, i_conn, idle, rLock, rWaiters,
                   i_reconnectTask, i_delay, i_slept, i_closePending, hubUp>>

\* _restart_connection raised in the watchdog: only CancelledError is
\* caught, the task ends
IWdRaised ==
    /\ running = IWD
    /\ pc[IWD] = "r_ret_exc"
    /\ pc' = [pc EXCEPT ![IWD] = "dead"]
    /\ running' = NoTask
    /\ UNCHANGED <<ready, sleeping, restVars, ingestVars, mqVars, mapVars>>

FreeAr == { k \in 1..MaxCloses : pc[IAR(k)] \in {"idle", "done"} }

\* _on_connection_close on the library thread:
\* run_coroutine_threadsafe(self._attempt_reconnection(), self.main_loop)
IOnClose ==
    /\ running = NoTask
    /\ i_closePending > 0
    /\ FreeAr # {}
    /\ LET k == CHOOSE k \in FreeAr : \A j \in FreeAr : k <= j
       IN  /\ pc' = [pc EXCEPT ![IAR(k)] = "start"]
           /\ ready' = Append(ready, IAR(k))
    /\ i_closePending' = i_closePending - 1
    /\ UNCHANGED <<running, sleeping, restVars, mqVars, mapVars, i_running, i_conn, idle, timer, rLock,
                   rWaiters, i_reconnectTask, i_delay, i_slept, hubUp>>

\* _attempt_reconnection: async with self._reconnect_lock
IAttemptEnter(k) ==
    /\ running = IAR(k)
    /\ pc[IAR(k)] = "start"
    /\ pc' = [pc EXCEPT ![IAR(k)] = "ar_locked"]
    /\ IF rLock = NoTask
         THEN /\ rLock' = IAR(k)
              /\ UNCHANGED <<rWaiters, running>>
         ELSE /\ rWaiters' = Append(rWaiters, IAR(k))
              /\ running' = NoTask
              /\ UNCHANGED rLock
    /\ UNCHANGED <<ready, sleeping, restVars, mqVars, mapVars, i_running, i_conn, idle, timer,
                   i_reconnectTask, i_delay, i_slept, i_closePending, hubUp>>

\* _attempt_reconnection creating a loop for every close notification
IAttemptReconnectionAlways(k) ==
    /\ running = IAR(k)
    /\ pc[IAR(k)] = "ar_locked"
    /\ rLock = IAR(k)
    /\ running' = NoTask
    /\ i_reconnectTask' = "active"
    /\ pc' = [pc EXCEPT ![IAR(k)] = "done", ![IRC] = "start"]
    /\ sleeping' = sleeping \ {IRC}
    /\ rLock' = IF rWaiters = <<>> THEN NoTask ELSE Head(rWaiters)
    /\ rWaiters' = IF rWaiters = <<>> THEN <<>> ELSE Tail(rWaiters)
    /\ ready' = LET q == Append(SelectSeq(ready, LAMBDA x : x # IRC), IRC)
                IN  IF rWaiters = <<>> THEN q ELSE Append(q, Head(rWaiters))
    /\ UNCHANGED <<restVars, mqVars, mapVars, i_running, i_conn, idle, timer, i_delay, i_slept,
                   i_closePending, hubUp>>

\* if self._reconnect_task and not self._reconnect_task.done(): return
\* self._reconnect_task = asyncio.create_task(self._reconnect_loop())
IAttemptReconnection(k) ==
    /\ running = IAR(k)
    /\ pc[IAR(k)] = "ar_locked"
    /\ rLock = IAR(k)
    /\ running' = NoTask
    /\ rLock' = IF rWaiters = <<>> THEN NoTask ELSE Head(rWaiters)
    /\ rWaiters' = IF rWaiters = <<>> THEN <<>> ELSE Tail(rWaiters)
    /\ IF i_reconnectTask = "active"
         THEN /\ pc' = [pc EXCEPT ![IAR(k)] = "done"]
              /\ ready' = IF rWaiters = <<>> THEN ready ELSE Append(ready, Head(rWaiters))
              /\ UNCHANGED i_reconnectTask
         ELSE /\ i_reconnectTask' = "active"
              /\ pc' = [pc EXCEPT ![IAR(k)] = "done", ![IRC] = "start"]
              /\ ready' = IF rWaiters = <<>> THEN Append(ready, IRC)
                          ELSE Append(Append(ready, IRC), Head(rWaiters))
    /\ UNCHANGED <<sleeping, restVars, mqVars, mapVars, i_running, i_conn, idle, timer, i_delay,
                   i_slept, i_closePending, hubUp>>

\* the delays the reconnect loop has slept since the client was last
\* reconnected by it, the oldest forgotten beyond MaxAttempts
Remember(q, d) == IF Len(q) < MaxAttempts THEN Append(q, d) ELSE Append(Tail(q), d)

\* _reconnect_loop: entry (delay = 1) or the except branch
\* (delay = min(delay * 2, 30)), the head of the while loop, sleep(delay)
IRcLoop ==
    /\ running = IRC
    /\ pc[IRC] \in {"start", "r_ret_exc"}
    /\ running' = NoTask
    /\ LET d == IF pc[IRC] = "start" THEN InitialDelay ELSE NextDelay(i_delay)
       IN  /\ i_delay' = d
           /\ IF i_running
                THEN /\ pc' = [pc EXCEPT ![IRC] = "rc_sleep"]
                     /\ timer' = [timer EXCEPT ![IRC] = d]
                     /\ sleeping' = sleeping \cup {IRC}
                     /\ i_slept' = IF pc[IRC] = "start" THEN <<d>> ELSE Remember(i_slept, d)
                     /\ UNCHANGED i_reconnectTask
                ELSE /\ pc' = [pc EXCEPT ![IRC] = "done"]
                     /\ i_reconnectTask' = "done"
                     /\ UNCHANGED <<timer, sleeping, i_slept>>
    /\ UNCHANGED <<ready, restVars, mqVars, mapVars, i_running, i_conn, idle, rLock, rWaiters,
                   i_closePending, hubUp>>

\* the sleep elapsed: await self._restart_connection()
IRcWake ==
    /\ running = IRC
    /\ pc[IRC] = "rc_sleep"
    /\ pc' = [pc EXCEPT ![IRC] = "r_enter"]
    /\ UNCHANGED <<ready, running, sleeping, restVars, ingestVars, mqVars, mapVars>>

\* _restart_connection returned: the loop returns, its delays are over
IRcReturned ==
    /\ running = IRC
    /\ pc[IRC] = "r_ret_ok"
    /\ pc' = [pc EXCEPT ![IRC] = "done"]
    /\ i_reconnectTask' = "done"
    /\ i_slept' = <<>>
    /\ running' = NoTask
    /\ UNCHANGED <<ready, sleeping, restVars, mqVars, mapVars, i_running, i_conn, idle, timer, rLock,
                   rWaiters, i_delay, i_closePending, hubUp>>

\* ---------------------------------------------------- MQTT ingest client
\* MQTTInputHandler.start of input_mqtt.py, the coroutine MQ; its clock
\* only measures how long the broker has delivered nothing.
MqReady == mq_conn = "connected" /\ pc[MQ] \in {"listening", "handling"}

\* async with self.client (connect), is_running = True, await subscribe;
\* a refused connection raises out of start()
MqConnect ==
    /\ running = MQ
    /\ pc[MQ] = "start"
    /\ running' = NoTask
    /\ IF brokerUp
         THEN /\ mq_conn' = "connected"
              /\ mq_running' = TRUE
              /\ mq_idle' = 0
              /\ pc' = [pc EXCEPT ![MQ] = "subscribing"]
              /\ ready' = Append(ready, MQ)
         ELSE /\ pc' = [pc EXCEPT ![MQ] = "failed"]
              /\ UNCHANGED <<mq_conn, mq_running, mq_idle, ready, mq_handled>>
    /\ UNCHANGED <<sleeping, restVars, ingestVars, mapVars, mq_inbox, brokerUp, mq_handled>>

\* The three MQTTInputHandler classes: src/middleware (input_mqtt.py) and
\* the two of the deployment (layers/input.py, layers/input_mqtt.py).
MqVariants == {"middleware", "deploy_input", "deploy_input_mqtt"}

\* start() of layers/input.py goes from "MQTT client started" straight to
\* the message loop; the other two await client.subscribe(topic, qos) first
Subscribes(variant) == variant # "deploy_input"

\* subscribe returned (where there is one): async for message in
\* self.client.messages
MqListen ==
    /\ running = MQ
    /\ pc[MQ] = "subscribing"
    /\ mq_conn = "connected"
    /\ mq_subscribed' = Subscribes(mq_variant)
    /\ pc' = [pc EXCEPT ![MQ] = IF mq_inbox > 0 THEN "handling" ELSE "listening"]
    /\ running' = IF mq_inbox > 0 THEN MQ ELSE NoTask
    /\ UNCHANGED <<ready, sleeping, restVars, ingestVars, mqVars, m_fork, m_event, m_result, m_handed,
                   depVars, logVars, joinVars, catVars, mq_variant, counts>>

\* the broker delivers a message of the topic to a subscriber: it waits in
\* client.messages and wakes the handler if that waits for one
MqFrame ==
    /\ running = NoTask
    /\ mq_conn = "connected"
    /\ mq_subscribed
    /\ counts["mapper"].processed < MaxCalls
    /\ mq_inbox < MaxFrames
    /\ mq_inbox' = mq_inbox + 1
    /\ mq_idle' = 0
    /\ IF pc[MQ] = "listening"
         THEN /\ pc' = [pc EXCEPT ![MQ] = "handling"]
              /\ ready' = Append(ready, MQ)
         ELSE UNCHANGED <<pc, ready>>
    /\ UNCHANGED <<running, sleeping, restVars, ingestVars, mapVars, mq_running, mq_conn, brokerUp, mq_handled>>

\* The messages a publisher may send: bytes that are no JSON, a payload for
\* a rule of the catalog, a payload without Equip.Tag.
MqFrames ==
    { [json |-> FALSE],
      [json |-> TRUE, payload |-> [k |-> "dict", tag |-> "GPS001", msg |-> "GLL001", value |-> Lat]],
      [json |-> TRUE, payload |-> [k |-> "dict", tag |-> None, msg |-> "GLL001", value |-> Lat]] }

\* how many handled messages are remembered
MaxHandled == 2

Remembered(q, e) == IF Len(q) < MaxHandled THEN Append(q, e) ELSE Append(Tail(q), e)

\* The IngressEvent each variant builds from a message whose payload is
\* JSON; fresh stands for str(uuid.uuid4()).  src/middleware passes uuid,
\* timestamp, source, topic and payload; layers/input.py passes the
\* header's UUID when the payload has one, layers/input_mqtt.py always a
\* fresh trace_id.
MqIngressEvent(variant, f, fresh) ==
    CASE variant = "middleware" ->
            IngressEvent([uuid |-> fresh, timestamp |-> 0, source |-> "mqtt", topic |-> "t",
                          payload |-> f.payload])
      [] variant = "deploy_input" ->
            IngressEvent([trace_id |-> IF "uuid" \in DOMAIN f.payload THEN f.payload.uuid ELSE fresh,
                          raw |-> f.payload, meta |-> "mqtt"])
      [] variant = "deploy_input_mqtt" ->
            IngressEvent([trace_id |-> fresh, raw |-> f.payload, meta |-> "mqtt"])

\* await self._on_message(message): json.loads, then IngressEvent(uuid=...,
\* timestamp=..., source=..., topic=..., payload=...), then the callback
\* (map_event and what it awaits); JSONDecodeError and every Exception are
\* caught and logged; then the next message, or the wait for one
MqHandle(f) ==
    LET event == MqIngressEvent(mq_variant, f, counts["mapper"].processed + 1)
        outcome == IF ~f.json THEN "invalid_json"
                   ELSE IF event.k = "raise" THEN "error"
                   ELSE "forwarded"
    IN  /\ running = MQ
        /\ pc[MQ] = "handling"
        /\ mq_conn = "connected"
        /\ mq_inbox > 0
        /\ mq_inbox' = mq_inbox - 1
        /\ mq_handled' = Remembered(mq_handled, [frame |-> f, outcome |-> outcome])
        /\ IF outcome = "forwarded"
             THEN HandleIngress(event)
             ELSE UNCHANGED <<m_event, m_result, m_handed, counts>>
        /\ UNCHANGED <<depVars, logVars, joinVars, catVars, subVars>>
        /\ IF mq_inbox = 1
             THEN /\ pc' = [pc EXCEPT ![MQ] = "listening"]
                  /\ running' = NoTask
             ELSE UNCHANGED <<pc, running>>
        /\ UNCHANGED <<ready, sleeping, restVars, ingestVars, m_fork, mq_running, mq_conn, mq_idle,
                       brokerUp>>

\* the connection to the broker is lost: the message iterator will raise
MqConnectionLost ==
    /\ running = NoTask
    /\ mq_conn = "connected"
    /\ mq_conn' = "lost"
    /\ IF pc[MQ] = "listening"
         THEN /\ pc' = [pc EXCEPT ![MQ] = "handling"]
              /\ ready' = Append(ready, MQ)
         ELSE UNCHANGED <<pc, ready>>
    /\ UNCHANGED <<running, sleeping, restVars, ingestVars, mapVars, mq_running, mq_inbox, mq_idle, brokerUp, mq_handled>>

\* except Exception: log, raise: start() ends, is_running stays True and
\* nothing connects again
MqRaised ==
    /\ running = MQ
    /\ pc[MQ] \in {"subscribing", "handling"}
    /\ mq_conn = "lost"
    /\ pc' = [pc EXCEPT ![MQ] = "failed"]
    /\ running' = NoTask
    /\ UNCHANGED <<ready, sleeping, restVars, ingestVars, mqVars, mapVars>>

BrokerDown ==
    /\ running = NoTask
    /\ brokerUp
    /\ brokerUp' = FALSE
    /\ UNCHANGED <<loopVars, restVars, ingestVars, mapVars, mq_running, mq_conn, mq_inbox, mq_idle, mq_handled>>

BrokerUp ==
    /\ running = NoTask
    /\ ~brokerUp
    /\ brokerUp' = TRUE
    /\ UNCHANGED <<loopVars, restVars, ingestVars, mapVars, mq_running, mq_conn, mq_inbox, mq_idle, mq_handled>>

\* time passes for the MQTT client
MqAdvance ==
    /\ running = NoTask
    /\ ready = <<>>
    /\ mq_idle < IdleCap
    /\ mq_idle' = Min(mq_idle + TimeStep, IdleCap)
    /\ UNCHANGED <<loopVars, restVars, ingestVars, mapVars, mq_running, mq_conn, mq_inbox, brokerUp, mq_handled>>

\* -------------------------------------------------------- specification
\* every object constructed, nothing started
Constructed ==
    /\ sleeping = {}
    /\ in_running = FALSE
    /\ frames = <<>>
    /\ mev = [i \in FrameIds |-> Nil]
    /\ rev = [i \in FrameIds |-> Nil]
    /\ idx = [i \in FrameIds |-> 0]
    /\ nTry = [i \in FrameIds |-> 0]
    /\ nRestart = [i \in FrameIds |-> 0]
    /\ nRebuild = [i \in FrameIds |-> 0]
    /\ first = [i \in FrameIds |-> None]
    /\ result = [i \in FrameIds |-> None]
    /\ success_count = [i \in FrameIds |-> 0]
    /\ error_count = [i \in FrameIds |-> 0]
    /\ ret = [t \in Tasks |-> None]
    /\ t_running = FALSE
    /\ conn = "none"
    /\ initLock = NoTask
    /\ initWaiters = <<>>
    /\ sendLock = NoTask
    /\ sendWaiters = <<>>
    /\ reconnectTask = "none"
    /\ delay = 0
    /\ backoff = <<>>
    /\ idleExpired = FALSE
    /\ closePending = 0
    /\ closes = 0
    /\ stopSignalled = FALSE
    /\ stopLog = <<>>
    /\ mq_handled = <<>>
    /\ m_event = Nil
    /\ m_result = Nil
    /\ m_handed = Nil
    /\ counts = [st \in Stages |-> [processed |-> 0, error |-> 0]]
    /\ d_event = Nil
    /\ d_targets = <<>>
    /\ d_idx = 0
    /\ d_calls = 0
    /\ d_sent = <<>>
    /\ d_accepted = <<>>
    /\ mq_subscribed = FALSE
    /\ c_loaded = FALSE
    /\ c_rules = <<>>
    /\ c_devices = <<>>
    /\ c_event = Nil
    /\ c_idx = 0
    /\ c_calls = 0
    /\ j_pc = "none"
    /\ j_n = 0
    /\ j_backoff = 0
    /\ j_waits = <<>>
    /\ j_joined = FALSE
    /\ l_running = FALSE
    /\ l_queue = <<>>
    /\ l_accepted = 0
    /\ l_discarded = {}
    /\ l_file = <<>>
    /\ l_pc = "none"
    /\ l_batch = <<>>
    /\ l_buf = <<>>
    /\ l_lost = {}
    /\ s_pc = "idle"
    /\ s_batch = <<>>
    /\ s_buf = <<>>
    /\ faults = 0
    /\ b_running = FALSE
    /\ mapOrder = <<>>
    /\ resolved = <<>>
    /\ sendLog = <<>>
    /\ records = <<>>
    /\ i_running = FALSE
    /\ i_conn = "none"
    /\ idle = 0
    /\ timer = [t \in {IS, IWD, IRC} |-> 0]
    /\ rLock = NoTask
    /\ rWaiters = <<>>
    /\ i_reconnectTask = "none"
    /\ i_delay = 0
    /\ i_slept = <<>>
    /\ i_closePending = 0
    /\ hubUp \in BOOLEAN
    /\ mq_running = FALSE
    /\ mq_conn = "none"
    /\ mq_inbox = 0
    /\ mq_idle = 0
    /\ brokerUp \in BOOLEAN

\* main_signalr.py: asyncio.run(main()) runs IoTDataBridge.start
Init ==
    /\ Constructed
    /\ mq_variant = "middleware"
    /\ pc = [t \in Tasks |-> IF t = SUP THEN "start" ELSE "idle"]
    /\ ready = <<>>
    /\ running = SUP
    /\ hubUp /\ brokerUp
    /\ m_fork = "deploy"

\* the SignalR ingest client alone: InputLayer.start is the first coroutine
InitIn ==
    /\ Constructed
    /\ mq_variant = "middleware"
    /\ pc = [t \in Tasks |-> IF t = IS THEN "start" ELSE "idle"]
    /\ ready = <<>>
    /\ running = IS
    /\ brokerUp
    /\ m_fork = "deploy"

\* main_mqtt.py: the MQTT handler's start is the first coroutine
InitMq ==
    /\ Constructed
    /\ mq_variant = "middleware"
    /\ pc = [t \in Tasks |-> IF t = MQ THEN "start" ELSE "idle"]
    /\ ready = <<>>
    /\ running = MQ
    /\ hubUp
    /\ m_fork = "deploy"

\* the event loop and the pipeline run of each frame
\* the event loop and the pipeline runs it carries
RunNext ==
    \/ Dispatch
    \/ \E t \in Tasks : TimerFires(t)
    \/ \E i \in FrameIds : MapEvent(i)
    \/ \E i \in FrameIds : ResolveEvent(i)
    \/ \E i \in FrameIds : TrySendOnce(i)
    \/ \E i \in FrameIds : SendLocked(i)
    \/ \E i \in FrameIds : DoSend(i)
    \/ \E i \in FrameIds : LazyReturned(i)
    \/ \E i \in FrameIds : ForcedReturned(i)
    \/ \E i \in FrameIds : ForcedRaised(i)
    \/ \E i \in FrameIds : PairDone(i)

PipelineNext ==
    \/ \E f \in FrameInputs : OnMessage(f)
    \/ RunNext

\* the egress connection: restarts, watchdog, reconnect loop
EgressNext ==
    \/ \E t \in Restarters : RestartEnter(t)
    \/ \E t \in Restarters : RestartLocked(t)
    \/ \E t \in Restarters : RestartStart(t)
    \/ \E t \in Restarters : RestartFinish(t)
    \/ PeerClose
    \/ WdLoop
    \/ WdTick
    \/ WdRaised
    \/ IdleElapses
    \/ OnClose
    \/ \E k \in 1..MaxCloses : AttemptReconnection(k)
    \/ RcLoop
    \/ RcWake
    \/ RcReturned

StartNext ==
    \/ SupStartInput
    \/ SupInputStarted
    \/ SupTransportEnter
    \/ SupTransportBuild
    \/ SupTransportStart
    \/ SupTransportStarted

\* SIGINT/SIGTERM while the bridge runs
SignalNext ==
    \/ StopSignal
    \/ SupLeaveLoop

\* IoTDataBridge.stop, also reached from the finally block of start()
StopNext ==
    \/ \E s \in Stoppers : StopBegin(s)
    \/ \E s \in Stoppers : StopInput(s)
    \/ \E s \in Stoppers : StopWatchdog(s)
    \/ \E s \in Stoppers : StopReconnect(s)
    \/ \E s \in Stoppers : StopEnter(s)
    \/ \E s \in Stoppers : StopTeardown(s)

Next == PipelineNext \/ EgressNext \/ StartNext \/ StopNext

vars == <<egressVars, ingestVars, mqVars, mapVars>>

Spec == Init /\ [][Next]_vars


\* ------------------------------------------------ the mapper by itself
\* One mapper and its resolver, called with one IngressEvent after the
\* other; the transports callback only takes the ResolvedEvent.
MapValues ==
    { PyNone, PyBool(TRUE), PyBool(FALSE), PyInt(0), PyInt(2), PyInt(-3),
      PyFloat(37, 1), PyFloat(30, 1), PyFloat(-37, 1), PyFloat(0, 0),
      PySpecial("nan"), PySpecial("inf"), PyList(0), PyList(1),
      PyStr(<<"t", "r", "u", "e">>), PyStr(<<"T", "R", "U", "E">>), PyStr(<<"Y", "e", "s">>),
      PyStr(<<"o", "n">>), PyStr(<<"1">>), PyStr(<<"f", "a", "l", "s", "e">>), PyStr(<<"0">>),
      PyStr(<<"N", "O">>), PyStr(<<"o", "f", "f">>), PyStr(<<"2">>), PyStr(<<"3">>),
      PyStr(<<"3", ".", "0">>), PyStr(<<"3", ".", "7">>), PyStr(<<" ", "3", " ">>),
      PyStr(<<"-", "3">>), PyStr(<<"a", "b", "c">>), PyStr(<<>>), PyStr(<<"n", "a", "n">>), Lat }

MapKeys ==
    { <<"TYP001", t>> : t \in RuleTypes }
    \cup { <<"GPS001", "GLL001">>, <<"NAV001", "HDG001">>, <<"TMP001", "VAL001">>,
           <<"UNKNOWN", "X">>, <<None, "GLL001">>, <<"GPS001", None>>, <<"", "GLL001">> }

\* event.raw: with a payload mapping, with a payload that is no mapping,
\* without a payload
MapInputs ==
    { [payload |-> [k |-> "dict", tag |-> key[1], msg |-> key[2], value |-> v]] :
          key \in MapKeys, v \in MapValues }
    \cup { [payload |-> PyStr(<<"a", "b", "c">>)], [header |-> "h"] }

\* the callback of the ingest layer, called with one frame
MapperCall(raw) ==
    /\ counts["mapper"].processed < MaxCalls
    /\ HandleIngress(IngressEvent([trace_id |-> counts["mapper"].processed + 1, raw |-> raw]))
    /\ UNCHANGED <<egressVars, ingestVars, mqVars, m_fork, depVars, logVars, joinVars, catVars, subVars>>

InitMap ==
    /\ Constructed
    /\ mq_variant = "middleware"
    /\ pc = [t \in Tasks |-> "idle"]
    /\ ready = <<>>
    /\ running = NoTask
    /\ hubUp /\ brokerUp
    /\ m_fork \in Forks

NextMap == \E raw \in MapInputs : MapperCall(raw)

SpecMap == InitMap /\ [][NextMap]_vars

\* ------------------------------------ the transports of the MQTT deployment
\* TransportsLayer of deploy/middleware-server: send_to_devices called with
\* one ResolvedEvent after the other, the transport handler publishing to
\* one device at a time.
get_device_profile(device_id) ==
    IF device_id \in {"VM-A", "VM-B"} THEN [device_id |-> device_id] ELSE Nil

DeployInputs ==
    { [object |-> o, value |-> v, target_devices |-> t] :
          o \in {"GPS.LAT"}, v \in {Lat, PyInt(3), PyBool(TRUE)},
          t \in {<<"VM-A">>, <<"VM-A", "VM-B">>, <<"VM-X", "VM-B">>, <<"VM-X">>} }

\* send_to_devices up to its loop: the device targets are built for the
\* devices that have a profile; with none the call ends with an error
DeploySendToDevices(e) ==
    LET targets == SelectSeq(e.target_devices, LAMBDA d : get_device_profile(d) # Nil)
    IN  /\ d_event = Nil
        /\ d_calls < MaxCalls
        /\ d_calls' = d_calls + 1
        /\ IF targets = <<>>
             THEN /\ counts' = increment_error(increment_processed(counts, "transports"),
                                               "transports")
                  /\ UNCHANGED <<d_event, d_targets, d_idx>>
             ELSE /\ counts' = increment_processed(counts, "transports")
                  /\ d_event' = [trace_id |-> d_calls + 1, object |-> e.object,
                                 value |-> e.value]
                  /\ d_targets' = targets
                  /\ d_idx' = 1
        /\ UNCHANGED <<egressVars, ingestVars, mqVars, m_fork, m_event, m_result, m_handed,
                       d_sent, d_accepted, logVars, joinVars, catVars, subVars>>

\* TransportsLayer._log_device_ingest: the record is built from the device
\* target and handed to the logging callback; any exception is logged
log_device_ingest(accepted, event, device_id) ==
    LET rec == DeviceIngestLog([device_id |-> device_id,
                                object |-> event.object, value |-> event.value])
    IN  IF "k" \in DOMAIN rec THEN accepted ELSE Append(accepted, DeliveryLine(rec))

\* one turn of the loop of send_to_devices: send_to_device returned ok
DeployDeviceSent(ok) ==
    /\ d_event # Nil
    /\ IF ok
         THEN /\ d_sent' = Append(d_sent, [trace_id |-> d_event.trace_id,
                                            device_id |-> d_targets[d_idx],
                                            object |-> d_event.object,
                                            value |-> d_event.value])
              /\ d_accepted' = log_device_ingest(d_accepted, d_event, d_targets[d_idx])
         ELSE UNCHANGED <<d_sent, d_accepted>>
    /\ IF d_idx = Len(d_targets)
         THEN /\ d_event' = Nil
              /\ d_targets' = <<>>
              /\ d_idx' = 0
         ELSE /\ d_idx' = d_idx + 1
              /\ UNCHANGED <<d_event, d_targets>>
    /\ UNCHANGED <<egressVars, ingestVars, mqVars, m_fork, m_event, m_result, m_handed,
                   counts, d_calls, logVars, joinVars, catVars, subVars>>

InitDeploy ==
    /\ Constructed
    /\ mq_variant = "middleware"
    /\ pc = [t \in Tasks |-> "idle"]
    /\ ready = <<>>
    /\ running = NoTask
    /\ hubUp /\ brokerUp
    /\ m_fork = "deploy"

NextDeploy ==
    \/ \E e \in DeployInputs : DeploySendToDevices(e)
    \/ \E ok \in BOOLEAN : DeployDeviceSent(ok)

SpecDeploy == InitDeploy /\ [][NextDeploy]_vars

\* ------------------------------------------------------ the Delivery Log
\* OptimizedLoggingLayer with enable_async_logging: log_device_ingest puts
\* the line into log_queue, the batch task writes the queue to the file in
\* batches, stop() flushes what is left and cancels the batch task.  Every
\* aiofiles call (open, write, flush) runs in the thread pool and suspends
\* its caller, so the calls of the batch task and of stop() interleave.
MaxRecords == 4    \* records handed to the log in one run
BatchSize == 2     \* batch_size
QueueMaxLen == 3   \* maxlen of log_queue

notLogVars == <<egressVars, ingestVars, mqVars, m_fork, m_event, m_result, m_handed, counts,
                depVars, joinVars, catVars, subVars>>

Range(q) == { q[k] : k \in 1..Len(q) }

\* OptimizedLoggingLayer.start
LogStart ==
    /\ l_pc = "none"
    /\ s_pc = "idle"
    /\ l_running' = TRUE
    /\ l_pc' = "loop"
    /\ UNCHANGED <<notLogVars, l_queue, l_accepted, l_discarded, l_file, l_batch, l_buf, l_lost,
                   s_pc, s_batch, s_buf>>

\* OptimizedLoggingLayer.log_device_ingest: deque.append on a full deque
\* pushes the oldest line out
LogDeviceIngest ==
    /\ l_accepted < MaxRecords
    /\ l_accepted' = l_accepted + 1
    /\ IF Len(l_queue) = QueueMaxLen
         THEN /\ l_queue' = Append(Tail(l_queue), l_accepted + 1)
              /\ l_discarded' = l_discarded \cup {Head(l_queue)}
         ELSE /\ l_queue' = Append(l_queue, l_accepted + 1)
              /\ UNCHANGED l_discarded
    /\ UNCHANGED <<notLogVars, l_running, l_file, l_pc, l_batch, l_buf, l_lost, s_pc, s_batch,
                   s_buf>>

\* _process_log_batch from the top of the loop to its next await
BatchLoop ==
    /\ l_pc = "loop"
    /\ IF ~l_running
         THEN /\ l_pc' = "done"
              /\ UNCHANGED <<l_queue, l_batch>>
         ELSE IF l_queue = <<>>
         THEN /\ l_pc' = "sleeping"
              /\ UNCHANGED <<l_queue, l_batch>>
         ELSE LET n == IF Len(l_queue) < BatchSize THEN Len(l_queue) ELSE BatchSize
              IN  /\ l_batch' = SubSeq(l_queue, 1, n)
                  /\ l_queue' = SubSeq(l_queue, n + 1, Len(l_queue))
                  /\ l_pc' = "open"
    /\ UNCHANGED <<notLogVars, l_running, l_accepted, l_discarded, l_file, l_buf, l_lost, s_pc,
                   s_batch, s_buf>>

\* asyncio.sleep(flush_interval) is over
BatchWake ==
    /\ l_pc = "sleeping"
    /\ l_pc' = "loop"
    /\ UNCHANGED <<notLogVars, l_running, l_queue, l_accepted, l_discarded, l_file, l_batch,
                   l_buf, l_lost, s_pc, s_batch, s_buf>>

\* _write_log_batch of the batch task: aiofiles.open returned
BatchOpen ==
    /\ l_pc = "open"
    /\ l_pc' = "write"
    /\ UNCHANGED <<notLogVars, l_running, l_queue, l_accepted, l_discarded, l_file, l_batch,
                   l_buf, l_lost, s_pc, s_batch, s_buf>>

\* f.write returned: the batch is in the buffer of the file object
BatchWrite ==
    /\ l_pc = "write"
    /\ l_buf' = l_batch
    /\ l_pc' = "flush"
    /\ UNCHANGED <<notLogVars, l_running, l_queue, l_accepted, l_discarded, l_file, l_batch,
                   l_lost, s_pc, s_batch, s_buf>>

\* f.flush returned: the buffer is in the file
BatchFlush ==
    /\ l_pc = "flush"
    /\ l_file' = l_file \o l_buf
    /\ l_buf' = <<>>
    /\ l_batch' = <<>>
    /\ l_pc' = "loop"
    /\ UNCHANGED <<notLogVars, l_running, l_queue, l_accepted, l_discarded, l_lost, s_pc,
                   s_batch, s_buf>>

\* OptimizedLoggingLayer.stop up to the first await of _flush_logs
LogStop ==
    /\ s_pc = "idle"
    /\ l_running' = FALSE
    /\ IF l_pc = "none"
         THEN /\ s_pc' = "done"
              /\ UNCHANGED <<l_queue, s_batch>>
         ELSE IF l_queue = <<>>
         THEN /\ s_pc' = "cancel"
              /\ UNCHANGED <<l_queue, s_batch>>
         ELSE /\ s_batch' = l_queue
              /\ l_queue' = <<>>
              /\ s_pc' = "open"
    /\ UNCHANGED <<notLogVars, l_accepted, l_discarded, l_file, l_pc, l_batch, l_buf, l_lost,
                   s_buf>>

\* _write_log_batch of _flush_logs: aiofiles.open returned
FlushOpen ==
    /\ s_pc = "open"
    /\ s_pc' = "write"
    /\ UNCHANGED <<notLogVars, l_running, l_queue, l_accepted, l_discarded, l_file, l_pc,
                   l_batch, l_buf, l_lost, s_batch, s_buf>>

FlushWrite ==
    /\ s_pc = "write"
    /\ s_buf' = s_batch
    /\ s_pc' = "flush"
    /\ UNCHANGED <<notLogVars, l_running, l_queue, l_accepted, l_discarded, l_file, l_pc,
                   l_batch, l_buf, l_lost, s_batch>>

FlushFlush ==
    /\ s_pc = "flush"
    /\ l_file' = l_file \o s_buf
    /\ s_buf' = <<>>
    /\ s_batch' = <<>>
    /\ s_pc' = "cancel"
    /\ UNCHANGED <<notLogVars, l_running, l_queue, l_accepted, l_discarded, l_pc, l_batch,
                   l_buf, l_lost>>

\* stop(): _batch_task.cancel() and the await of the task.  CancelledError
\* is raised at the await the task is suspended in; leaving the async with
\* closes the file object, which writes what it has buffered.  A write that
\* is cancelled may or may not have reached the buffer.
StopCancel(written) ==
    /\ s_pc = "cancel"
    /\ s_pc' = "done"
    /\ l_pc' = "done"
    /\ l_batch' = <<>>
    /\ l_buf' = <<>>
    /\ CASE l_pc \in {"done", "loop", "sleeping"} ->
               UNCHANGED <<l_file, l_lost>>
         [] l_pc = "open" ->
               /\ l_lost' = l_lost \cup Range(l_batch)
               /\ UNCHANGED l_file
         [] l_pc = "write" ->
               IF written
               THEN /\ l_file' = l_file \o l_batch
                    /\ UNCHANGED l_lost
               ELSE /\ l_lost' = l_lost \cup Range(l_batch)
                    /\ UNCHANGED l_file
         [] l_pc = "flush" ->
               /\ l_file' = l_file \o l_buf
               /\ UNCHANGED l_lost
    /\ UNCHANGED <<notLogVars, l_running, l_queue, l_accepted, l_discarded, s_batch, s_buf>>

InitLog ==
    /\ Constructed
    /\ mq_variant = "middleware"
    /\ pc = [t \in Tasks |-> "idle"]
    /\ ready = <<>>
    /\ running = NoTask
    /\ hubUp /\ brokerUp
    /\ m_fork = "deploy"

NextLog ==
    \/ LogStart
    \/ LogDeviceIngest
    \/ BatchLoop
    \/ BatchWake
    \/ BatchOpen
    \/ BatchWrite
    \/ BatchFlush
    \/ LogStop
    \/ FlushOpen
    \/ FlushWrite
    \/ FlushFlush
    \/ \E written \in BOOLEAN : StopCancel(written)

SpecLog == InitLog /\ [][NextLog]_vars

\* ------------------------------------------------- the trace id of a frame
\* The handlers that build an IngressEvent from a frame, each followed by
\* the mapper and the resolver.  A header UUID is a number from 101 on, a
\* fresh identifier (str(uuid.uuid4())) the number of the call.
TraceHandlers == {"input_signalr", "deploy_input", "deploy_input_mqtt"}

HeaderUuids == {101, 102}

\* payload.get('header', {}).get('UUID'), 0 when there is none
HeaderUuid(raw) ==
    IF "header" \in DOMAIN raw /\ "UUID" \in DOMAIN raw.header THEN raw.header.UUID ELSE 0

\* the trace_id each handler passes to IngressEvent: _on_message of
\* input_signalr.py and _process_message of the deployment's input_mqtt.py
\* generate one, _process_message of the deployment's input.py takes the
\* header's UUID when there is one
trace_id_of(handler, raw, fresh) ==
    IF handler = "deploy_input" /\ HeaderUuid(raw) # 0 THEN HeaderUuid(raw) ELSE fresh

TraceInputs ==
    LET payloads == { [k |-> "dict", tag |-> "GPS001", msg |-> "GLL001", value |-> Lat],
                      [k |-> "dict", tag |-> "NAV001", msg |-> "HDG001", value |-> Lat],
                      [k |-> "dict", tag |-> "UNKNOWN", msg |-> "X", value |-> Lat] }
    IN  { [payload |-> p] : p \in payloads }
        \cup { [header |-> [UUID |-> u], payload |-> p] : u \in HeaderUuids, p \in payloads }

\* one frame through a handler and the callback it awaits
TraceCall(handler, raw) ==
    /\ counts["mapper"].processed < MaxCalls
    /\ HandleIngress(IngressEvent([trace_id |-> trace_id_of(handler, raw, counts["mapper"].processed + 1),
                                   raw |-> raw, meta |-> handler]))
    /\ UNCHANGED <<egressVars, ingestVars, mqVars, m_fork, depVars, logVars, joinVars, catVars, subVars>>

NextTrace == \E handler \in TraceHandlers, raw \in TraceInputs : TraceCall(handler, raw)

SpecTrace == InitMap /\ [][NextTrace]_vars

\* ------------------------------------------------ the catalogs on the heap
\* Both catalogs are dictionaries filled by load(); the stages hold the
\* catalog objects and read them for every frame.  get_devices_for_object
\* returns the list object of the catalog itself, and the Resolver passes it
\* to ResolvedEvent(target_devices=...): whether the event then holds that
\* very list or a copy is the validation library's business, so both are
\* possible here.
notCatVars == <<egressVars, ingestVars, mqVars, m_fork, m_event, m_result, m_handed, counts,
                depVars, logVars, joinVars, subVars>>

CatalogInputs ==
    { [payload |-> [k |-> "dict", tag |-> key[1], msg |-> key[2], value |-> v]] :
          key \in MapKeys, v \in {Lat, PyInt(2), PyNone} }

\* MappingCatalog.load, DeviceCatalog.load: clear, then one entry per item
\* of the YAML file
CatalogLoad ==
    /\ ~c_loaded
    /\ c_loaded' = TRUE
    /\ c_rules' = [key \in { <<r.equip_tag, r.message_id>> : r \in MappingRules } |->
                      get_mapping(key[1], key[2])]
    /\ c_devices' = [o \in ObjectsInCatalog |-> object_to_devices(o)]
    /\ UNCHANGED <<notCatVars, c_event, c_idx, c_calls>>

\* the list the loop of send_to_devices walks: the event's own copy, or the
\* list of the catalog when the event holds that object
TargetDevices(event) ==
    IF event.aliased THEN c_devices[event.object] ELSE event.target_devices

\* map_event and resolve_event for one frame, reading both catalogs:
\* mappings.get(key), object_to_devices.get(object, []); a frame that is
\* dropped leaves nothing behind
CatalogResolve(raw, aliased) ==
    LET payload == PayloadOf(raw)
        key     == <<payload.tag, payload.msg>>
        rule    == IF key \in DOMAIN c_rules THEN c_rules[key] ELSE Nil
        casted  == cast_value(m_fork, payload.value, rule.value_type)
        mapped  == /\ payload.tag \notin {None, ""}
                   /\ payload.msg \notin {None, ""}
                   /\ payload.value # PyNone
                   /\ rule # Nil
                   /\ casted.k # "raise"
                   /\ casted # PyNone
                   /\ rule.value_type \in ValueType
        targets == IF rule.object \in DOMAIN c_devices THEN c_devices[rule.object] ELSE <<>>
    IN  /\ c_loaded
        /\ c_event = Nil
        /\ c_calls < MaxCalls
        /\ c_calls' = c_calls + 1
        /\ IF mapped /\ targets # <<>>
             THEN /\ c_event' = [trace_id |-> c_calls + 1, object |-> rule.object, value |-> casted,
                                 target_devices |-> targets, aliased |-> aliased]
                  /\ c_idx' = 1
             ELSE UNCHANGED <<c_event, c_idx>>
        /\ UNCHANGED <<notCatVars, c_loaded, c_rules, c_devices>>

\* a send loop that takes the devices off the list it walks
CatalogSendConsuming ==
    /\ c_event # Nil
    /\ IF TargetDevices(c_event) # <<>>
         THEN /\ IF c_event.aliased
                   THEN /\ c_devices' = [c_devices EXCEPT ![c_event.object] = Tail(@)]
                        /\ UNCHANGED c_event
                   ELSE /\ c_event' = [c_event EXCEPT !.target_devices = Tail(@)]
                        /\ UNCHANGED c_devices
              /\ UNCHANGED c_idx
         ELSE /\ c_event' = Nil
              /\ c_idx' = 0
              /\ UNCHANGED c_devices
    /\ UNCHANGED <<notCatVars, c_loaded, c_rules, c_calls>>

\* one turn of "for device_id in event.target_devices" of send_to_devices
\* (the device is read, sent to and logged), or the end of the loop
CatalogSend ==
    /\ c_event # Nil
    /\ IF c_idx <= Len(TargetDevices(c_event))
         THEN /\ c_idx' = c_idx + 1
              /\ UNCHANGED c_event
         ELSE /\ c_event' = Nil
              /\ c_idx' = 0
    /\ UNCHANGED <<notCatVars, c_loaded, c_rules, c_devices, c_calls>>

NextCatalog ==
    \/ CatalogLoad
    \/ \E raw \in CatalogInputs, aliased \in BOOLEAN : CatalogResolve(raw, aliased)
    \/ CatalogSend

SpecCatalog == InitMap /\ [][NextCatalog]_vars

\* -------------------------------------------------- JoinGroup on open
\* _on_open of the SignalR ingest client (input_signalr.py 121-139) hands
\* _join_with_backoff to the event loop: up to JoinAttempts JoinGroup sends,
\* each failure followed by a sleep of the backoff, which then doubles up to
\* JoinBackoffCap.  Waits are in tenths of a second.
JoinAttempts == 5
JoinBackoffInit == 2
JoinBackoffCap == 20

notJoinVars == <<loopVars, restVars, ingestVars, mqVars, m_fork, m_event, m_result, m_handed, counts,
                 depVars, logVars, subVars, catVars>>

\* backoff = min(backoff * 2, 2.0)
NextJoinBackoff(b) == Min(b * 2, JoinBackoffCap)

\* connection.send raises when the connection is not open (and may raise
\* for any other reason the library has)
JoinSendOk == i_conn = "started" /\ hubUp

\* on_open, called by the library once the connection it started is open:
\* run_coroutine_threadsafe(_join_with_backoff(), main_loop)
JoinOnOpen ==
    /\ running = NoTask
    /\ i_conn = "started"
    /\ j_pc = "none"
    /\ j_pc' = "try"
    /\ j_backoff' = JoinBackoffInit
    /\ UNCHANGED <<notJoinVars, j_n, j_waits, j_joined>>

\* one turn of "for _ in range(5)": send JoinGroup and return, or sleep
JoinAttempt ==
    /\ running = NoTask
    /\ j_pc = "try"
    /\ j_n' = j_n + 1
    /\ \E ok \in BOOLEAN :
         /\ ok => JoinSendOk
         /\ IF ok
              THEN /\ j_joined' = TRUE
                   /\ j_pc' = "joined"
                   /\ UNCHANGED j_waits
              ELSE /\ j_pc' = "sleep"
                   /\ j_waits' = Append(j_waits, j_backoff)
                   /\ UNCHANGED j_joined
    /\ UNCHANGED <<notJoinVars, j_backoff>>

\* the sleep is over: the backoff doubles; after the last turn the loop is
\* left and "JoinGroup failed permanently" is logged, nothing else
JoinWake ==
    /\ running = NoTask
    /\ j_pc = "sleep"
    /\ j_backoff' = NextJoinBackoff(j_backoff)
    /\ j_pc' = IF j_n < JoinAttempts THEN "try" ELSE "failed"
    /\ UNCHANGED <<notJoinVars, j_n, j_waits, j_joined>>

NextJoin ==
    \/ Dispatch
    \/ ITimerFires(IS)
    \/ IStartBuild
    \/ IStartConnect
    \/ IStartDone
    \/ IWdLoop
    \/ HubDown
    \/ HubUp
    \/ JoinOnOpen
    \/ JoinAttempt
    \/ JoinWake

SpecJoin == InitIn /\ [][NextJoin]_vars

\* shutdown by signal while frames are in flight; the connection is never
\* idle long enough for the watchdog to act
NextStop ==
    \/ \E f \in ShutdownInputs : OnMessage(f)
    \/ RunNext
    \/ \E t \in Restarters : RestartEnter(t)
    \/ \E t \in Restarters : RestartLocked(t)
    \/ \E t \in Restarters : RestartStart(t)
    \/ \E t \in Restarters : RestartFinish(t)
    \/ PeerClose
    \/ WdLoop
    \/ OnClose
    \/ \E k \in 1..MaxCloses : AttemptReconnection(k)
    \/ RcLoop
    \/ RcWake
    \/ RcReturned
    \/ StartNext
    \/ SignalNext
    \/ StopNext

SpecStop == Init /\ [][NextStop]_vars

\* shutdown by signal of a bridge that receives no frame
NextQuiet ==
    \/ Dispatch
    \/ \E t \in Tasks : TimerFires(t)
    \/ EgressNext
    \/ StartNext
    \/ SignalNext
    \/ StopNext

SpecQuiet == Init /\ [][NextQuiet]_vars

\* the egress client left to itself: no frame arrives and the peer never
\* closes the connection, so every on_close comes from a teardown the client
\* made itself
NextOwnClose ==
    \/ Dispatch
    \/ \E t \in Tasks : TimerFires(t)
    \/ StartNext
    \/ \E t \in Restarters : RestartEnter(t)
    \/ \E t \in Restarters : RestartLocked(t)
    \/ \E t \in Restarters : RestartStart(t)
    \/ \E t \in Restarters : RestartFinish(t)
    \/ WdLoop
    \/ WdTick
    \/ WdRaised
    \/ IdleElapses
    \/ OnClose
    \/ \E k \in 1..MaxCloses : AttemptReconnection(k)
    \/ RcLoop
    \/ RcWake
    \/ RcReturned

SpecOwnClose == Init /\ [][NextOwnClose]_vars

\* the event loop keeps running what is ready and timers fire
LiveQuiet == SpecQuiet /\ WF_vars(NextQuiet)

\* the SignalR ingest client and its environment
NextIn ==
    \/ Dispatch
    \/ Advance
    \/ \E t \in {IS, IWD, IRC} : ITimerFires(t)
    \/ IStartBuild
    \/ IStartConnect
    \/ IStartDone
    \/ IFrame
    \/ HubDown
    \/ HubUp
    \/ IPeerClose
    \/ \E t \in IRestarters : IRestartEnter(t)
    \/ \E t \in IRestarters : IRestartLocked(t)
    \/ \E t \in IRestarters : IRestartStart(t)
    \/ \E t \in IRestarters : IRestartFinish(t)
    \/ IWdLoop
    \/ IWdTick
    \/ IWdRaised
    \/ IOnClose
    \/ \E k \in 1..MaxCloses : IAttemptEnter(k)
    \/ \E k \in 1..MaxCloses : IAttemptReconnection(k)
    \/ IRcLoop
    \/ IRcWake
    \/ IRcReturned

SpecIn == InitIn /\ [][NextIn]_vars

\* what the MQTT client and its loop do (the broker's doings left out)
MqSteps ==
    \/ Dispatch
    \/ MqConnect
    \/ MqListen
    \/ \E f \in MqFrames : MqHandle(f)
    \/ MqRaised
    \/ MqAdvance

NextMq ==
    \/ MqSteps
    \/ MqFrame
    \/ MqConnectionLost
    \/ BrokerDown
    \/ BrokerUp

SpecMq == InitMq /\ [][NextMq]_vars

\* the loop runs what is ready and time passes
LiveMq == SpecMq /\ WF_vars(MqSteps)

\* the MQTT ingest client in each of its three variants
InitMqVariants ==
    /\ Constructed
    /\ mq_variant \in MqVariants
    /\ pc = [t \in Tasks |-> IF t = MQ THEN "start" ELSE "idle"]
    /\ ready = <<>>
    /\ running = MQ
    /\ hubUp
    /\ m_fork = "deploy"

SpecMqVariants == InitMqVariants /\ [][NextMq]_vars

\* ----------------------------------------------------------- properties

\* positions in sendLog of the attempts for the k-th target of frame i
Attempts(i, k) == { a \in 1..Len(sendLog) : sendLog[a].frame = i /\ sendLog[a].idx = k }

\* the k-th target of frame i has been dealt with by send_to_devices
PairOver(i, k) == k < idx[i] \/ pc[F(i)] = "done"

RecordsOf(t, d) ==
    { k \in 1..Len(records) : records[k].trace_id = t /\ records[k].device_id = d }

OkSends(t, d) ==
    { a \in 1..Len(sendLog) : sendLog[a].frame = t /\ sendLog[a].device = d /\ sendLog[a].ok }

\* C1: every DeliveryRecord handed to the Delivery Log has a ResolvedEvent
\* emitted before it with the same trace_id and object whose target_devices
\* contain the record's device_id, and stands for a send to that device that
\* succeeded (no more records than successful sends per trace and device).
C1_RecordHasResolvedSend ==
    \A k \in 1..Len(records) :
        /\ \E r \in 1..Len(resolved) :
              /\ resolved[r].trace_id = records[k].trace_id
              /\ resolved[r].object = records[k].object
              /\ records[k].device_id \in Range(resolved[r].target_devices)
        /\ Cardinality(RecordsOf(records[k].trace_id, records[k].device_id))
             <= Cardinality(OkSends(records[k].trace_id, records[k].device_id))

\* a record exists next to a send that failed
C1_Witness ==
    /\ Len(records) >= 1
    /\ \E a \in 1..Len(sendLog) : ~sendLog[a].ok

\* C2: a ResolvedEvent is emitted only when the catalog lists at least one
\* device for the object, and carries exactly the catalog's sequence; a
\* mapped event whose object has no devices (empty or unknown) is dropped
\* with no ResolvedEvent, no send and no record.
C2_ResolvedIffTargets ==
    /\ \A r \in 1..Len(resolved) :
          /\ resolved[r].target_devices # <<>>
          /\ resolved[r].target_devices = get_devices_for_object(resolved[r].object)
    /\ \A i \in FrameIds :
          (mev[i] # Nil /\ pc[F(i)] # "resolve") =>
             IF get_devices_for_object(mev[i].object) = <<>>
             THEN /\ rev[i] = Nil
                  /\ \A r \in 1..Len(resolved) : resolved[r].trace_id # i
                  /\ \A a \in 1..Len(sendLog) : sendLog[a].frame # i
                  /\ \A k \in 1..Len(records) : records[k].trace_id # i
             ELSE /\ rev[i] \in Range(resolved)
                  /\ rev[i].trace_id = i
                  /\ rev[i].object = mev[i].object
                  /\ rev[i].target_devices = get_devices_for_object(mev[i].object)

\* one mapped event dropped for want of devices, another one forwarded
C2_Witness ==
    \E i, j \in FrameIds :
        /\ pc[F(i)] = "done" /\ mev[i] # Nil /\ mev[i].object \in {"SYS.TMP", "NAV.HDG"}
        /\ rev[j] # Nil /\ Len(rev[j].target_devices) = 2

C4_EveryDeviceAttempted ==
    \A i \in FrameIds :
        rev[i] # Nil =>
            /\ \A k \in 1..Len(rev[i].target_devices) : PairOver(i, k) => Attempts(i, k) # {}
            /\ Cardinality({ k \in 1..Len(records) : records[k].trace_id = i })
                 = Cardinality({ k \in 1..Len(rev[i].target_devices) :
                                    PairOver(i, k) /\ \E a \in Attempts(i, k) : sendLog[a].ok })

\* a finished run that failed for its first device and delivered to its
\* second
C4_Witness ==
    \E i \in FrameIds :
        /\ pc[F(i)] = "done" /\ rev[i] # Nil
        /\ \A a \in Attempts(i, 1) : ~sendLog[a].ok
        /\ \E a \in Attempts(i, 2) : sendLog[a].ok
        /\ Cardinality({ k \in 1..Len(records) : records[k].trace_id = i }) = 1

\* C5: the first attempts of one event are made in the order of the
\* catalog's list, one per list element (a device listed twice is sent to
\* twice), and the records are appended in the order the sends succeeded.
C5_CatalogOrder ==
    /\ \A a \in 1..Len(sendLog) :
          sendLog[a].device = get_devices_for_object(rev[sendLog[a].frame].object)[sendLog[a].idx]
    /\ \A a, b \in 1..Len(sendLog) :
          (a < b /\ sendLog[a].frame = sendLog[b].frame /\ sendLog[a].n = 1 /\ sendLog[b].n = 1)
             => sendLog[a].idx < sendLog[b].idx
    /\ \A i \in FrameIds :
          rev[i] # Nil =>
             \A k \in 1..Len(rev[i].target_devices) :
                 PairOver(i, k) => Cardinality({ a \in Attempts(i, k) : sendLog[a].n = 1 }) = 1
    /\ LET oks == SelectSeq(sendLog, LAMBDA e : e.ok)
       IN  /\ Len(records) \in {Len(oks), Len(oks) - 1}
           /\ \A k \in 1..Len(records) :
                 /\ records[k].trace_id = oks[k].frame
                 /\ records[k].device_id = oks[k].device

\* an event for an object that lists one device twice has two records for it
C5_Witness ==
    \E i \in FrameIds :
        /\ pc[F(i)] = "done" /\ rev[i] # Nil
        /\ rev[i].target_devices = <<"VM-B", "VM-B">>
        /\ Cardinality(RecordsOf(i, "VM-B")) = 2

\* C6: map_event runs start in the order the frames arrived.
C6_MappedInArrivalOrder ==
    \A k \in 1..Len(mapOrder) : mapOrder[k] = k

\* the second frame is mapped while the run of the first is suspended in
\* the restart of the egress connection
C6_Witness ==
    /\ Len(mapOrder) = 2
    /\ pc[F(1)] \in {"r_locked", "r_sleep1", "r_sleep2"}

EmissionIndex(t) == CHOOSE r \in 1..Len(resolved) : resolved[r].trace_id = t

NeededRetry(t, d) ==
    \E a \in 1..Len(sendLog) : sendLog[a].frame = t /\ sendLog[a].device = d /\ sendLog[a].n = 2

\* C7: for one device, deliveries are logged in the order the Resolver
\* emitted their events, except that a delivery which needed the
\* reconnect-and-retry path may come after a later event's delivery.
C7_PerDeviceOrder ==
    \A a, b \in 1..Len(records) :
        ( /\ a < b
          /\ records[a].device_id = records[b].device_id
          /\ EmissionIndex(records[a].trace_id) > EmissionIndex(records[b].trace_id) )
        => NeededRetry(records[b].trace_id, records[b].device_id)

Last(q) == q[Len(q)]

\* C8: while reconnecting keeps failing, the delays slept are 1, 2, 4, 8, 16,
\* 30, 30, ...: the first is 1 s, each next one is the double of the one
\* before capped at 30 s, never smaller than the one before; the delay is
\* 1 s again only for the first sleep after a restart of the connection that
\* returned without an error, never because a close notification arrived
\* while the loop was backing off.
C8_BackoffSchedule ==
    [][i_slept' # i_slept =>
         \/ /\ i_slept' = <<>>
            /\ pc[IRC] = "r_ret_ok"
         \/ /\ i_slept = <<>>
            /\ i_slept' = <<1>>
            /\ timer'[IRC] = 1
         \/ /\ i_slept # <<>>
            /\ i_slept' # <<>>
            /\ Last(i_slept') = (IF 2 * Last(i_slept) > 30 THEN 30 ELSE 2 * Last(i_slept))
            /\ Last(i_slept') >= Last(i_slept)
            /\ Last(i_slept') <= 30
            /\ timer'[IRC] = Last(i_slept')
            /\ \A j \in 1..(Len(i_slept') - 1) :
                   i_slept'[j] = i_slept[j + Len(i_slept) + 1 - Len(i_slept')]]_vars

\* seven failed attempts in a row, closes arriving or not
C8_Witness == i_slept = <<1, 2, 4, 8, 16, 30, 30>>

\* C9: a client that lost its connection, or could not open it, is Ready
\* again once the broker accepts connections for good.
C9_EventuallyReadyAgain == (<>[]brokerUp) => []<>MqReady

\* C10: a Ready ingest client is never without a frame for longer than the
\* idle timeout: it has left Ready by then.
C10_IdleWithinTimeout == MqReady => mq_idle <= IdleTimeoutSec

\* ------------------------------------------------------------ shutdown
StopEnded(e) == e[1] \in {"return", "raise"}

\* C11: stop() called again after an earlier call of it has ended raises no
\* error: no call of stop that begins after another call ended is left by
\* an exception.
C11_SecondStopRaisesNothing ==
    \A j, k, m \in 1..Len(stopLog) :
        ( /\ j < k
          /\ k < m
          /\ StopEnded(stopLog[j])
          /\ stopLog[k][1] = "call"
          /\ stopLog[k][2] # stopLog[j][2] )
        => stopLog[m] # <<"raise", stopLog[k][2]>>

\* stop() of the egress client has set is_running to False
StopCalled ==
    \E s \in Stoppers : pc[s] \in {"stop_wd", "stop_rc", "stop_lock", "stop_td", "done", "stop_raised"}

\* C12: closing is terminal: once stop() has been called on the client,
\* nothing builds or starts a connection any more.
C12_ClosingIsTerminal ==
    [][StopCalled => ~(conn' # conn /\ conn' \in {"built", "started"})]_vars

\* C13: once shutdown was signalled and stop() of the ingest layer has
\* returned, no IngressEvent is handed to the Mapper any more, frames
\* queued before the stop included.
C13_NoMappingAfterStop ==
    [][(stopSignalled /\ StopCalled) => mapOrder' = mapOrder]_vars

\* ---------------------------------------------------------------- mapper
LacksField(f) == f.tag = None \/ f.msg = None \/ f.value = PyNone

\* C14: a frame whose payload lacks Equip.Tag, Message.ID or VALUE yields no
\* MappedEvent, is never given to the Resolver, is sent to no device and
\* leaves no Delivery Log line.
C14_InvalidFrameNoEffect ==
    \A i \in 1..Len(frames) :
        LacksField(frames[i]) =>
            /\ mev[i] = Nil
            /\ rev[i] = Nil
            /\ \A r \in 1..Len(resolved) : resolved[r].trace_id # i
            /\ \A a \in 1..Len(sendLog) : sendLog[a].frame # i
            /\ \A a \in 1..Len(records) : records[a].trace_id # i

\* a frame without Equip.Tag went through map_event and ended, while the
\* frame after it was delivered
C14_Witness ==
    /\ Len(frames) = 2
    /\ frames[1].tag = None
    /\ pc[F(1)] = "done"
    /\ mapOrder = <<1, 2>>
    /\ \E a \in 1..Len(records) : records[a].trace_id = 2

Emitted == m_result # Nil /\ m_result.event # Nil

RuleOf(event) == get_mapping(PayloadOf(event.raw).tag, PayloadOf(event.raw).msg)

\* C15: a MappedEvent carries the object and the value_type of the catalog
\* rule of its frame, the value_type is one of int, float, str, bool, the
\* value is a value of that type, and the trace_id is the IngressEvent's.
C15_MappedEventTyped ==
    Emitted =>
        /\ RuleOf(m_event) # Nil
        /\ m_result.event.object = RuleOf(m_event).object
        /\ m_result.event.value_type = RuleOf(m_event).value_type
        /\ m_result.event.value_type \in ValueType
        /\ m_result.event.value.k = m_result.event.value_type
        /\ m_result.event.trace_id = m_event.trace_id

\* the payload of the last call is a mapping whose rule declares type ty
CalledWith(ty) ==
    /\ m_event # Nil
    /\ PayloadOf(m_event.raw).k = "dict"
    /\ PayloadOf(m_event.raw).value # PyNone
    /\ RuleOf(m_event) # Nil
    /\ RuleOf(m_event).value_type = ty

FalseWords == { <<"f", "a", "l", "s", "e">>, <<"0">>, <<"n", "o">>, <<"o", "f", "f">> }

Failure == [k |-> "failure"]

\* the rule for booleans: native booleans as they are, the words for true
\* and for false in any case, numbers by being zero or not, nothing else
BooleanRule(v) ==
    CASE v.k = "bool" -> v
      [] v.k = "str" /\ lower(v.s) \in TrueWords -> PyBool(TRUE)
      [] v.k = "str" /\ lower(v.s) \in FalseWords -> PyBool(FALSE)
      [] v.k = "int" -> PyBool(v.n # 0)
      [] v.k = "float" -> PyBool(v.special # "no" \/ v.num # 0)
      [] OTHER -> Failure

\* C16: for a rule of type boolean the Mapper emits the value the rule for
\* booleans gives, and drops the frame when that rule gives none (as for
\* the string "2").
C16_BooleanCoercion ==
    CalledWith(TypeNames(m_fork).bool) =>
        IF BooleanRule(PayloadOf(m_event.raw).value) = Failure
        THEN m_result.event = Nil
        ELSE /\ m_result.event # Nil
             /\ m_result.event.value = BooleanRule(PayloadOf(m_event.raw).value)

\* the rule for integers: a number, or a string that reads as a decimal
\* number, whose fractional part is zero; nothing else
IntegerRule(v) ==
    LET x == IF v.k = "str" THEN ParseFloat(v.s) ELSE float(v)
    IN  IF x.k = "float" /\ x.special = "no" /\ x.scale = 0 THEN PyInt(x.num) ELSE Failure

\* C17: for a rule of type integer and a VALUE that is a number or a string,
\* the Mapper emits the integer when the fractional part is zero and drops
\* the frame otherwise (3.7 and "3.7" are dropped, never truncated).
C17_IntegerCoercion ==
    ( /\ CalledWith(TypeNames(m_fork).int)
      /\ PayloadOf(m_event.raw).value.k \in {"int", "float", "str"} ) =>
        IF IntegerRule(PayloadOf(m_event.raw).value) = Failure
        THEN m_result.event = Nil
        ELSE /\ m_result.event # Nil
             /\ m_result.event.value = IntegerRule(PayloadOf(m_event.raw).value)

\* C18: a frame the Mapper drops adds exactly 1 to the Mapper's processed
\* and error counters, changes no counter of another stage and hands
\* nothing on; a frame the Resolver drops for want of targets adds exactly 1
\* to the Resolver's error counter and nothing to the Mapper's.
C18_DropCounters ==
    [][counts' # counts =>
         /\ m_result'.event = Nil =>
               /\ counts'["mapper"].processed = counts["mapper"].processed + 1
               /\ counts'["mapper"].error = counts["mapper"].error + 1
               /\ counts'["resolver"] = counts["resolver"]
               /\ counts'["transports"] = counts["transports"]
               /\ m_handed' = m_handed
         /\ (m_result'.event # Nil /\ get_devices_for_object(m_result'.event.object) = <<>>) =>
               /\ counts'["resolver"].error = counts["resolver"].error + 1
               /\ counts'["resolver"].processed = counts["resolver"].processed + 1
               /\ counts'["mapper"].error = counts["mapper"].error
               /\ counts'["mapper"].processed = counts["mapper"].processed + 1
               /\ counts'["transports"] = counts["transports"]
               /\ m_handed' = m_handed]_vars

\* one frame was dropped by the Mapper for a failed coercion after one that
\* the Resolver dropped for want of targets
C18_Witness ==
    /\ counts["mapper"] = [processed |-> 2, error |-> 1]
    /\ counts["resolver"] = [processed |-> 1, error |-> 1]
    /\ m_result.outcome = "coercion_failed"

\* C19: an error while one frame is processed ends neither the message
\* loop nor the processing of later frames: the frame received after a
\* frame that ended in an error is handed to the stages like any other.
C19_NextFrameProcessed ==
    \A j \in 2..Len(mq_handled) :
        (mq_handled[j - 1].outcome # "forwarded" /\ mq_handled[j].frame.json)
            => mq_handled[j].outcome = "forwarded"

\* C20: every send that succeeded has exactly one line accepted by the
\* Delivery Log, for its device, object and value: the accepted lines are as
\* many as the successful sends, and the k-th line is the one of the k-th
\* successful send.
C20_OneLinePerSend ==
    /\ Len(d_accepted) = Len(d_sent)
    /\ \A k \in 1..Len(d_sent) :
          d_accepted[k] = <<"Data sent", d_sent[k].device_id, d_sent[k].object,
                            str(d_sent[k].value)>>

\* C21: the lines of the log file are in the order in which their records
\* were accepted: a record accepted before another never stands after it.
C21_FileInAcceptanceOrder ==
    \A a, b \in 1..Len(l_file) : a < b => l_file[a] < l_file[b]

\* C22: the Ingest Client is started last: no frame is handed to the
\* pipeline while start() of the Supervisor has still to start the Egress
\* Client.
C22_IngestStartedLast ==
    frames # <<>> =>
        pc[SUP] \notin {"start", "in_sleep", "t_start", "t_locked", "t_sleep1", "t_sleep2"}

\* stop() of the Supervisor has stopped the Delivery Log
LogStopped == \E s \in Stoppers : pc[s] = "done"

Restarting(t) == pc[t] \in {"r_sleep1", "r_sleep2"}

C25_IdleWatchdogAtWork ==
    t_running => Alive(WD)

\* the (event, device) pairs that are over without a successful attempt
FailedPairs ==
    UNION { { <<i, k>> : k \in { n \in 1..Len(rev[i].target_devices) :
                                   /\ PairOver(i, n)
                                   /\ \A a \in Attempts(i, n) : ~sendLog[a].ok } } :
            i \in { j \in FrameIds : rev[j] # Nil } }

\* C26: the error counter of the Egress stage equals the number of failed
\* (event, device) pairs.
C26_EgressErrorCounter ==
    counts["transports"].error = Cardinality(FailedPairs)

\* C27: the records accepted and not yet in the file are at most one batch,
\* and the queue discards none of the records it accepted.
C27_AtMostOneBatchBuffered ==
    /\ Len(l_queue) + Len(l_batch) + Len(s_batch) <= BatchSize
    /\ l_discarded = {}

\* C28: stop() terminates: every call of stop() of the Supervisor returns
\* after it has stopped all the stages, whatever the egress client was
\* doing when it was called.
C28_StopReturns ==
    \A s \in Stoppers : (pc[s] = "stop_begin") ~> (pc[s] = "done")

\* C29: the hub sends are serialized and use a settled connection: a task
\* that is about to call connection.send holds the send lock, and nobody is
\* tearing the connection down or rebuilding it at that moment (no task is
\* inside _restart_connection between the teardown and the end of the
\* restart).
C29_SendOnSettledConnection ==
    \A i \in FrameIds :
        pc[F(i)] = "dosend"
            => /\ sendLock = F(i)
               /\ \A t \in Restarters : ~Restarting(t)

\* C30: the fields of the ingest client are written on the event loop only:
\* every step that sets the last-message time to now or that changes the
\* reconnect task is a step of a task the event loop is running, never a
\* step of the library thread (which only hands work to the loop).
C30_FieldsWrittenOnLoop ==
    [][ /\ (idle > 0 /\ idle' = 0) => running # NoTask
        /\ (i_reconnectTask' # i_reconnectTask) => running # NoTask ]_vars

\* C31: JoinGroup is sent at most 5 times, the waits between the sends are
\* 0.2 s doubling up to 2.0 s, and a client whose 5 sends all failed does
\* not stay connected without being joined: it reconnects.
C31_JoinGroupOrReconnect ==
    /\ j_n <= 5
    /\ \A k \in 1..Len(j_waits) :
          j_waits[k] = IF k = 1 THEN 2 ELSE Min(2 * j_waits[k - 1], 20)
    /\ j_pc = "failed" => (i_conn # "started" \/ i_reconnectTask = "active")

\* C32: a connected MQTT ingest client that waits for messages or handles
\* one has subscribed to the configured topic, whichever of the handlers is
\* installed.
C32_SubscribedBeforeListening ==
    (mq_conn = "connected" /\ pc[MQ] \in {"listening", "handling"}) => mq_subscribed

\* C33: the trace_id of the IngressEvent built from a frame is the frame's
\* header UUID when the frame has one, and the MappedEvent and the
\* ResolvedEvent of that frame carry the same trace_id.
C33_TraceIdIsHeaderUuid ==
    m_event # Nil
        => /\ HeaderUuid(m_event.raw) # 0 => m_event.trace_id = HeaderUuid(m_event.raw)
           /\ m_result.event # Nil => m_result.event.trace_id = m_event.trace_id
           /\ (m_result.event # Nil /\ get_devices_for_object(m_result.event.object) # <<>>)
                 => m_handed.trace_id = m_event.trace_id

\* C34: once the catalogs are loaded no step of the pipeline changes them:
\* the rules and the device list of every object stay as load() left them,
\* whether or not the ResolvedEvent holds the list object of the catalog.
C34_CatalogsUnchanged ==
    [][c_loaded => (c_rules' = c_rules /\ c_devices' = c_devices)]_vars

\* the second frame has been sent to both devices of GPS.LAT through an
\* event that holds the list of the catalog itself
C34_Witness ==
    /\ c_loaded
    /\ c_calls = MaxCalls
    /\ c_event # Nil
    /\ c_event.aliased
    /\ c_event.object = "GPS.LAT"
    /\ c_idx = Len(c_devices["GPS.LAT"]) + 1
    /\ c_devices["GPS.LAT"] = object_to_devices("GPS.LAT")

\* a task the event loop will run without anybody's help: it is running, in
\* the ready queue, or asleep on a timer
Runnable(t) == t = running \/ t \in Range(ready) \/ t \in sleeping

\* C35: no deadlock on the locks of the Egress Client: a lock is held by a
\* live task only, nobody waits for a free lock, the holder of the init lock
\* never waits for another lock, and the holder of the send lock waits at
\* most for the init lock (one order of taking them: send lock, then init
\* lock), so that every holder gets to release its lock.
C35_NoLockDeadlock ==
    /\ initLock # NoTask => (Alive(initLock) /\ Runnable(initLock))
    /\ sendLock # NoTask => (Alive(sendLock) /\ (Runnable(sendLock) \/ sendLock \in Range(initWaiters)))
    /\ initWaiters # <<>> => initLock # NoTask
    /\ sendWaiters # <<>> => sendLock # NoTask
    /\ \A t \in Range(initWaiters) \cup Range(sendWaiters) : Alive(t)

\* stop() has cancelled the watchdog and holds the init lock for the
\* teardown, while a send that holds the send lock waits for the init lock
C35_Witness ==
    /\ pc[WD] = "cancelled"
    /\ initLock \in Stoppers
    /\ sendLock # NoTask
    /\ sendLock \in Range(initWaiters)

\* C36: a restart the client makes is not followed by a second one for the
\* same cause: when every on_close comes from the client's own teardowns,
\* the reconnect loop never tears down and rebuilds a connection that is
\* started.
C36_RebuiltOnce ==
    [][(pc[RC] = "r_locked" /\ pc'[RC] = "r_sleep1") => conn # "started"]_vars

\* C37: when send_to_devices returns for a ResolvedEvent, successful plus
\* failed devices equal the length of target_devices, the DeliveryRecords
\* emitted for the event are as many as the successful devices, and the
\* result's success flag is true exactly when every device succeeded.
C37_CountsAddUp ==
    \A i \in FrameIds :
        (pc[F(i)] = "done" /\ rev[i] # Nil) =>
            /\ success_count[i] + error_count[i] = Len(rev[i].target_devices)
            /\ LayerResultOf(i).processed_count = success_count[i] + error_count[i]
            /\ Cardinality({ k \in 1..Len(records) : records[k].trace_id = i }) = success_count[i]
            /\ LayerResultOf(i).success <=> success_count[i] = Len(rev[i].target_devices)

\* a returned call for two devices of which one succeeded and one failed
C37_Witness ==
    \E i \in FrameIds :
        /\ pc[F(i)] = "done" /\ rev[i] # Nil
        /\ Len(rev[i].target_devices) = 2
        /\ success_count[i] = 1 /\ error_count[i] = 1
        /\ ~LayerResultOf(i).success

\* C38: a stop() of the Delivery Log that has returned wrote every record
\* accepted before it exactly once: none was lost with a batch the cancelled
\* batch task had taken from the queue, none is in the file twice, and none
\* is left in the queue (records the full queue pushed out are set aside,
\* what is in the queue after stop() was accepted after it began).
C38_StopWritesEveryRecordOnce ==
    s_pc = "done" =>
        /\ l_lost = {}
        /\ \A r \in 1..l_accepted :
              (r \notin l_discarded /\ r \notin Range(l_queue))
                  => Cardinality({ k \in 1..Len(l_file) : l_file[k] = r }) = 1

\* C39: two stop() calls running concurrently (the signal handler's task
\* and the finally block of start()) are safe: neither call raises, and
\* once both have ended and nothing is left to run, each has returned, the
\* egress client is stopped, its watchdog and reconnect loop are over and
\* its connection is released.
C39_ConcurrentStopsSafe ==
    /\ \A k \in 1..Len(stopLog) : stopLog[k][1] # "raise"
    /\ ( /\ \A s \in Stoppers : pc[s] \in {"done", "stop_raised"}
         /\ running = NoTask /\ ready = <<>> /\ sleeping = {} /\ closePending = 0 )
          => /\ \A s \in Stoppers : pc[s] = "done"
             /\ ~t_running /\ ~b_running
             /\ ~Alive(WD) /\ ~Alive(RC)
             /\ reconnectTask # "active"
             /\ conn = "none"

FalsyValues == { PyInt(0), PyBool(FALSE), PyStr(<<>>) }

\* C40: a frame whose VALUE is present but falsy (0, false, the empty
\* string) is not dropped as lacking a field: its rule is looked up and the
\* value coerced like any other, and a coerced result, 0 and false
\* included, is emitted as the MappedEvent's value; the frame counts as a
\* coercion failure only when the coercion itself gave None.
C40_FalsyValueIsAValue ==
    ( /\ m_event # Nil
      /\ PayloadOf(m_event.raw).k = "dict"
      /\ PayloadOf(m_event.raw).tag \notin {None, ""}
      /\ PayloadOf(m_event.raw).msg \notin {None, ""}
      /\ PayloadOf(m_event.raw).value \in FalsyValues )
    => /\ m_result.outcome # "invalid_payload"
       /\ RuleOf(m_event) = Nil <=> m_result.outcome = "unmapped"
       /\ (RuleOf(m_event) # Nil /\ RuleOf(m_event).value_type \in ValueType)
             => LET casted == cast_value(m_fork, PayloadOf(m_event.raw).value,
                                         RuleOf(m_event).value_type)
                IN  /\ m_result.outcome = "coercion_failed" <=> casted = PyNone
                    /\ (casted.k # "raise" /\ casted # PyNone)
                          => /\ m_result.outcome = "mapped"
                             /\ m_result.event.value = casted

\* the number 0 went through the mapper as integer 0 or as boolean false
C40_Witness ==
    /\ m_event # Nil
    /\ PayloadOf(m_event.raw).k = "dict"
    /\ PayloadOf(m_event.raw).value = PyInt(0)
    /\ m_result.outcome = "mapped"
    /\ m_result.event.value \in {PyInt(0), PyBool(FALSE)}

====
